---- MODULE Spec2Model ----
(***************************************************************************)
(* Social-graph and engagement-consistency layer of the thazh social       *)
(* back end: follow / unfollow, like toggle, comments and the verification *)
(* request workflow, as the route handlers drive them against the store.   *)
(*                                                                         *)
(* Every store call of a handler either succeeds or returns a store error  *)
(* (supabase-js returns { data, error } and does not throw); the handlers  *)
(* are translated with the error checks they make and the ones they omit.  *)
(***************************************************************************)
EXTENDS Integers, FiniteSets, Sequences, TLC

\* ---------------------------------------------------------------- bounds
NumUsers == 3
NumPosts == 1
MaxTime == 3

NumProcs == 2
MaxFaults == 1
MaxPage == 3
MaxLimit == 2

Users == 1..NumUsers
Procs == 1..NumProcs
PostIds == 1..NumPosts

\* ----------------------------------------------------------------- state
VARIABLES
  follows,            \* follows table: set of <<follower_id, following_id>>
  following_count,    \* profiles.following_count
  follower_count,     \* profiles.follower_count
  posts,              \* posts table: the ids that have a row
  likes,              \* likes table: set of <<post_id, user_id>>
  like_count,         \* posts.like_count
  comments,           \* comments table: set of [id, post_id, user_id]
  comment_count,      \* posts.comment_count
  post_data,          \* posts columns: id -> [user_id, content, created_at]
  hashtags,           \* hashtags table: canonical tag -> post_count
  post_hashtags,      \* post_hashtags table: set of <<post_id, tag>>
  media,              \* storage bucket 'media': the keys of the stored files
  verification_requests,  \* verification_requests table: row id -> row
  is_verified,        \* profiles.is_verified
  inflight,           \* requests in progress, between two of their store calls
  unreliable,         \* whether store calls may return a store error in this run
  feed,               \* the feed request in progress, between two store reads
  profile,            \* the answer of the latest profile query
  now,                \* logical clock: one tick per handled request
  last,               \* the last request handled and its response
  prev                \* the request handled before it

followVars == <<follows, following_count, follower_count>>
tagVars == <<post_data, hashtags, post_hashtags, media>>
postVars == <<posts, likes, like_count, comments, comment_count, tagVars>>
verifVars == <<verification_requests, is_verified>>
vars ==
  <<followVars, postVars, verifVars, inflight, unreliable, feed, profile,
    now, last, prev>>

\* a post id that has no row
MissingPost == NumPosts + MaxTime + 1

\* no row (the null of a .single() read)
NullRow == [user_id |-> 0, status |-> "null", created_at |-> 0, reviewed_at |-> 0]

\* errs: the store calls of the request that returned a store error, each
\* <<call, k>> with k the tag the call was for (0 outside the tag loop).
\* request: for a status query, the verification request answered.
\* posts: for a feed request, the items of the page answered.
\* post: for a create request, the id of the post it inserted (0: none).
\* run, base: for a like request, the number of consecutive like requests by
\* the same user on the same post that started without the like edge, and
\* the post's like_count when that run started (0 when not in such a run).
NoRequest ==
  [op |-> "none", user |-> 0, target |-> 0, code |-> 0, msg |-> "",
   faults |-> FALSE, before |-> <<0, 0>>, is_liked |-> FALSE,
   run |-> 0, base |-> 0, errs |-> {}, post |-> 0, posts |-> <<>>,
   request |-> NullRow]

Respond(op, user, target, code, msg, faults, before) ==
  [NoRequest EXCEPT !.op = op, !.user = user, !.target = target,
                    !.code = code, !.msg = msg, !.faults = faults,
                    !.before = before]

\* the store error of one call, if it returned one
Err(call, error) == IF error THEN {<<call, 0>>} ELSE {}

\* the store error of one call of the hashtag loop, made for the k-th match
ErrAt(call, k, error) == IF error THEN {<<call, k>>} ELSE {}

WithErrs(response, errs) == [response EXCEPT !.errs = errs]

\* a request slot with no request in progress
Idle ==
  [op |-> "none", pc |-> "idle", user |-> 0, target |-> 0, snap |-> NullRow,
   faults |-> FALSE, k |-> 0]

\* no feed request in progress
NoFeed ==
  [pc |-> "idle", user |-> 0, page |-> 0, limit |-> 0, items |-> <<>>,
   liked |-> <<>>, seen |-> <<>>, done |-> <<>>]

\* no profile query answered yet
NoProfile ==
  [code |-> 0, user |-> 0, viewer |-> 0, is_following |-> FALSE,
   total_likes_received |-> 0, at |-> 0]

\* a request is answered: the clock ticks and the response is recorded
Answers(response) ==
  /\ now < MaxTime
  /\ now' = now + 1
  /\ last' = response
  /\ prev' = last

\* a query that writes nothing is answered: the response is recorded
AnswersQuery(response) ==
  /\ last' = response
  /\ prev' = last
  /\ UNCHANGED <<now, inflight, unreliable, feed, profile>>

\* one request is handled from its first store call to its response
Handled(response) ==
  /\ Answers(response)
  /\ UNCHANGED <<inflight, unreliable, feed, profile>>

\* Outcome of one store call: TRUE = result, FALSE = store error.
StoreOutcomes == IF unreliable THEN BOOLEAN ELSE {TRUE}

\* ------------------------------------------------- store: delta primitive
\* Atomic server-side "adjust numeric field by delta", addressed by id.
\* A call on an id with no row changes nothing.
rpc_increment(counter, id) ==
  IF id \in DOMAIN counter THEN [counter EXCEPT ![id] = @ + 1] ELSE counter

rpc_decrement(counter, id) ==
  IF id \in DOMAIN counter THEN [counter EXCEPT ![id] = @ - 1] ELSE counter

\* ------------------------------------------------------------------- text
\* Text is a sequence of one-character strings.
LowerCase ==
  <<"a", "b", "c", "d", "e", "f", "g", "h", "i", "j", "k", "l", "m", "n", "o", "p", "q", "r", "s", "t", "u", "v", "w", "x", "y", "z">>
UpperCase ==
  <<"A", "B", "C", "D", "E", "F", "G", "H", "I", "J", "K", "L", "M", "N", "O", "P", "Q", "R", "S", "T", "U", "V", "W", "X", "Y", "Z">>
Digits == {"0", "1", "2", "3", "4", "5", "6", "7", "8", "9"}

\* \w of the regular expression: letters, digits and the underscore
WordChars ==
  {LowerCase[k] : k \in DOMAIN LowerCase} \cup {UpperCase[k] : k \in DOMAIN UpperCase}
    \cup Digits \cup {"_"}

IsWordChar(c) == c \in WordChars

\* the lower-case letter of every upper-case letter
LowerOf ==
  [c \in {UpperCase[k] : k \in DOMAIN UpperCase} |->
     LowerCase[CHOOSE k \in DOMAIN UpperCase : c = UpperCase[k]]]

\* String.prototype.toLowerCase over the characters above
toLowerCase(text) ==
  [i \in DOMAIN text |->
     IF text[i] \in DOMAIN LowerOf THEN LowerOf[text[i]] ELSE text[i]]

\* the end of the longest run of word characters that starts at position i
RECURSIVE WordEnd(_, _)
WordEnd(text, i) ==
  IF i <= Len(text) /\ IsWordChar(text[i]) THEN WordEnd(text, i + 1) ELSE i

\* matchHashtags taking everything from a '#' to the end of the text
RECURSIVE matchHashtags_toEnd(_, _)
matchHashtags_toEnd(text, i) ==
  IF i > Len(text) THEN <<>>
  ELSE IF text[i] = "#" /\ WordEnd(text, i + 1) > i + 1
       THEN <<SubSeq(text, i, Len(text))>>
       ELSE matchHashtags_toEnd(text, i + 1)

\* content.match(/#[\w]+/g) from position i on: every match, left to right,
\* repeats included
RECURSIVE matchHashtags(_, _)
matchHashtags(text, i) ==
  IF i > Len(text) THEN <<>>
  ELSE IF text[i] = "#" /\ WordEnd(text, i + 1) > i + 1
       THEN <<SubSeq(text, i, WordEnd(text, i + 1) - 1)>>
              \o matchHashtags(text, WordEnd(text, i + 1))
       ELSE matchHashtags(text, i + 1)

Hello == <<"H", "e", "l", "l", "o", " ", "#", "W", "o", "r", "l", "d", " ", "a", "n", "d", " ", "#", "w", "o", "r", "l", "d", "!">>
CheckNews == <<"c", "h", "e", "c", "k", " ", "#", "n", "e", "w", "s", " ", "n", "o", "w">>
TwoTags == <<"#", "a", " ", "t", "h", "e", "n", " ", "#", "b">>
TagNews == <<"#", "n", "e", "w", "s">>

\* the post texts requests are made with
Contents == {<<>>, Hello, CheckNews, TwoTags}

\* ------------------------------------------------------- follow / unfollow
\* existingFollow with the two columns swapped
existingFollow_swapped(me, userId, readOk) ==
  readOk /\ <<userId, me>> \in follows

\* select from follows where follower_id = me and following_id = userId,
\* .single(): the row, or null when there is none or the read fails.
existingFollow(me, userId, readOk) ==
  readOk /\ <<me, userId>> \in follows

\* followInsertError of a store that accepts a second edge for the same pair
followInsertError_anyPair(me, userId, insertOk) == ~insertOk

\* selfFollow never recognising the own id
selfFollow_never(me, userId) == FALSE

\* if (userId === req.user!.id)
selfFollow(me, userId) == userId = me

\* insert into follows: rejected on a store fault or on a duplicate pair.
followInsertError(me, userId, insertOk) ==
  ~insertOk \/ <<me, userId>> \in follows

\* if (error) after the insert: the handler never goes on past an error
followAborts_never(error) == FALSE

\* if (error) after the insert: answer 400 and return
followAborts(error) == error

\* followAdjust calling each increment again until it succeeds
followAdjust_retry(me, userId, rpc1Ok, rpc2Ok) ==
  <<rpc_increment(following_count, me), rpc_increment(follower_count, userId)>>

\* the two increments after a successful insert; neither result is checked.
followAdjust(me, userId, rpc1Ok, rpc2Ok) ==
  LET fing == IF rpc1Ok THEN rpc_increment(following_count, me)
                        ELSE following_count
      fer  == IF rpc2Ok THEN rpc_increment(follower_count, userId)
                        ELSE follower_count
  IN <<fing, fer>>

\* delete from follows where follower_id = me and following_id = userId:
\* an error only on a store fault; deleting no row is not an error.
unfollowDeleteError(deleteOk) == ~deleteOk

\* if (error) after the delete: answer 400 and return
unfollowAborts(error) == error

\* unfollowAdjust without the decrement of the followee's follower_count
unfollowAdjust_followingOnly(me, userId, rpc1Ok, rpc2Ok) ==
  LET fing == IF rpc1Ok THEN rpc_decrement(following_count, me)
                        ELSE following_count
  IN <<fing, follower_count>>

\* the two decrements after a delete that reported no error.
unfollowAdjust(me, userId, rpc1Ok, rpc2Ok) ==
  LET fing == IF rpc1Ok THEN rpc_decrement(following_count, me)
                        ELSE following_count
      fer  == IF rpc2Ok THEN rpc_decrement(follower_count, userId)
                        ELSE follower_count
  IN <<fing, fer>>

\* POST /:userId/follow
FollowUser(me, userId) ==
  LET before == <<following_count[me], follower_count[userId]>> IN
  IF selfFollow(me, userId) THEN
    /\ Handled(Respond("follow", me, userId, 400, "Cannot follow yourself",
                       FALSE, before))
    /\ UNCHANGED <<followVars, postVars, verifVars>>
  ELSE \E readOk \in StoreOutcomes :
    IF existingFollow(me, userId, readOk) THEN
      /\ Handled(Respond("follow", me, userId, 400,
                         "Already following this user", FALSE, before))
      /\ UNCHANGED <<followVars, postVars, verifVars>>
    ELSE \E insertOk \in StoreOutcomes :
      LET error == followInsertError(me, userId, insertOk) IN
      IF followAborts(error) THEN
        /\ Handled(WithErrs(Respond("follow", me, userId, 400, "store error",
                                    ~readOk \/ ~insertOk, before),
                            Err("read", ~readOk) \cup Err("edge", error)))
        /\ UNCHANGED <<followVars, postVars, verifVars>>
      ELSE \E rpc1Ok, rpc2Ok \in StoreOutcomes :
        /\ follows' = IF error THEN follows ELSE follows \cup {<<me, userId>>}
        /\ following_count' = followAdjust(me, userId, rpc1Ok, rpc2Ok)[1]
        /\ follower_count' = followAdjust(me, userId, rpc1Ok, rpc2Ok)[2]
        /\ UNCHANGED <<postVars, verifVars>>
        /\ Handled(WithErrs(Respond("follow", me, userId, 200,
                                    "User followed successfully",
                                    ~readOk \/ ~rpc1Ok \/ ~rpc2Ok, before),
                            Err("read", ~readOk) \cup Err("edge", error)
                              \cup Err("adjust1", ~rpc1Ok)
                              \cup Err("adjust2", ~rpc2Ok)))

\* DELETE /:userId/follow
UnfollowUser(me, userId) ==
  LET before == <<following_count[me], follower_count[userId]>> IN
  \E deleteOk \in StoreOutcomes :
    LET error == unfollowDeleteError(deleteOk) IN
    IF unfollowAborts(error) THEN
      /\ Handled(WithErrs(Respond("unfollow", me, userId, 400, "store error",
                                  TRUE, before),
                          Err("edge", error)))
      /\ UNCHANGED <<followVars, postVars, verifVars>>
    ELSE \E rpc1Ok, rpc2Ok \in StoreOutcomes :
      /\ follows' = IF error THEN follows ELSE follows \ {<<me, userId>>}
      /\ following_count' = unfollowAdjust(me, userId, rpc1Ok, rpc2Ok)[1]
      /\ follower_count' = unfollowAdjust(me, userId, rpc1Ok, rpc2Ok)[2]
      /\ UNCHANGED <<postVars, verifVars>>
      /\ Handled(WithErrs(Respond("unfollow", me, userId, 200,
                                  "User unfollowed successfully",
                                  ~rpc1Ok \/ ~rpc2Ok, before),
                          Err("edge", error) \cup Err("adjust1", ~rpc1Ok)
                            \cup Err("adjust2", ~rpc2Ok)))

\* ---------------------------------------------------------- like / comment
\* select from likes where post_id = postId and user_id = me, .single():
\* the row, or null when there is none or the read fails.
existingLike(me, postId, readOk) ==
  readOk /\ <<postId, me>> \in likes

\* delete from likes (unlike branch); the result is not checked.
unlikeDelete(me, postId, deleteOk) ==
  IF deleteOk THEN likes \ {<<postId, me>>} ELSE likes

\* insert into likes (like branch); the result is not checked. The store
\* rejects a store fault, a post id with no row and a duplicate pair.
likeInsert(me, postId, insertOk) ==
  IF insertOk /\ postId \in posts THEN likes \cup {<<postId, me>>} ELSE likes

\* the error of the insert into likes: a store fault, a post id with no row
\* (foreign key) or a duplicate pair
likeInsertError(me, postId, insertOk) ==
  ~insertOk \/ postId \notin posts \/ <<postId, me>> \in likes

\* unlikeAdjust without the decrement
unlikeAdjust_none(postId, rpcOk) == like_count

\* likeAdjust as a client-side write of "count read at the start, plus one"
likeAdjust_staleWrite(postId, rpcOk) ==
  IF rpcOk /\ postId \in DOMAIN like_count
  THEN [like_count EXCEPT ![postId] = 1] ELSE like_count

\* rpc decrement_post_likes; the result is not checked.
unlikeAdjust(postId, rpcOk) ==
  IF rpcOk THEN rpc_decrement(like_count, postId) ELSE like_count

\* rpc increment_post_likes; the result is not checked.
likeAdjust(postId, rpcOk) ==
  IF rpcOk THEN rpc_increment(like_count, postId) ELSE like_count

\* the like run the request belongs to (see NoRequest)
LikeRun(me, postId, faults) ==
  IF faults \/ postId \notin posts THEN <<0, 0>>
  ELSE IF last.op = "like" /\ last.user = me /\ last.target = postId
          /\ last.run > 0
       THEN <<last.run + 1, last.base>>
  ELSE IF <<postId, me>> \notin likes THEN <<1, like_count[postId]>>
  ELSE <<0, 0>>

LikeResponse(me, postId, msg, is_liked, faults) ==
  [Respond("like", me, postId, 200, msg, faults,
           <<IF postId \in posts THEN like_count[postId] ELSE 0, 0>>)
     EXCEPT !.is_liked = is_liked,
            !.run = LikeRun(me, postId, faults)[1],
            !.base = LikeRun(me, postId, faults)[2]]

\* POST /:postId/like
LikePost(me, postId) ==
  \E readOk \in StoreOutcomes :
    IF existingLike(me, postId, readOk) THEN
      \E deleteOk, rpcOk \in StoreOutcomes :
        /\ likes' = unlikeDelete(me, postId, deleteOk)
        /\ like_count' = unlikeAdjust(postId, rpcOk)
        /\ UNCHANGED <<followVars, verifVars, posts, comments, comment_count,
                       tagVars>>
        /\ Handled(WithErrs(LikeResponse(me, postId, "Post unliked", FALSE,
                                         ~deleteOk \/ ~rpcOk),
                            Err("edge", ~deleteOk) \cup Err("adjust1", ~rpcOk)))
    ELSE
      \E insertOk, rpcOk \in StoreOutcomes :
        /\ likes' = likeInsert(me, postId, insertOk)
        /\ like_count' = likeAdjust(postId, rpcOk)
        /\ UNCHANGED <<followVars, verifVars, posts, comments, comment_count,
                       tagVars>>
        /\ Handled(WithErrs(LikeResponse(me, postId, "Post liked", TRUE,
                                         ~readOk \/ ~insertOk \/ ~rpcOk),
                            Err("read", ~readOk)
                              \cup Err("edge", likeInsertError(me, postId, insertOk))
                              \cup Err("adjust1", ~rpcOk)))

\* insert into comments: rejected on a store fault or a post id with no row.
commentInsertError(postId, insertOk) ==
  ~insertOk \/ postId \notin posts

\* if (error) after the insert: the handler never goes on past an error
commentAborts_never(error) == FALSE

\* if (error) after the insert: answer 400 and return
commentAborts(error) == error

\* rpc increment_post_comments; the result is not checked.
commentAdjust(postId, rpcOk) ==
  IF rpcOk THEN rpc_increment(comment_count, postId) ELSE comment_count

\* POST /:postId/comments
AddComment(me, postId, hasContent) ==
  LET before == <<IF postId \in posts THEN comment_count[postId] ELSE 0, 0>> IN
  IF ~hasContent THEN
    /\ Handled(Respond("comment", me, postId, 400, "Comment content required",
                       FALSE, before))
    /\ UNCHANGED <<followVars, postVars, verifVars>>
  ELSE \E insertOk \in StoreOutcomes :
    LET error == commentInsertError(postId, insertOk) IN
    IF commentAborts(error) THEN
      /\ Handled(WithErrs(Respond("comment", me, postId, 400, "store error",
                                  ~insertOk, before),
                          Err("edge", error)))
      /\ UNCHANGED <<followVars, postVars, verifVars>>
    ELSE \E rpcOk \in StoreOutcomes :
      /\ comments' = IF error THEN comments
                     ELSE comments \cup
                            {[id |-> now + 1, post_id |-> postId, user_id |-> me]}
      /\ comment_count' = commentAdjust(postId, rpcOk)
      /\ UNCHANGED <<followVars, verifVars, posts, likes, like_count, tagVars>>
      /\ Handled(WithErrs(Respond("comment", me, postId, 201, "", ~rpcOk,
                                  before),
                          Err("edge", error) \cup Err("adjust1", ~rpcOk)))

\* commentDelete followed by a decrement of the post's comment_count
commentDelete_reconcile(commentId, deleteOk) ==
  <<{c \in comments : c.id # commentId},
    [q \in DOMAIN comment_count |->
       comment_count[q]
         - Cardinality({c \in comments : c.id = commentId /\ c.post_id = q})]>>

\* delete from comments where id = commentId, the only store call of the
\* route: <<comments, comment_count>> after it
commentDelete(commentId, deleteOk) ==
  <<IF deleteOk THEN {c \in comments : c.id # commentId} ELSE comments,
    comment_count>>

\* DELETE /comments/:commentId (admin)
DeleteComment(commentId) ==
  \E deleteOk \in StoreOutcomes :
    IF ~deleteOk THEN
      /\ Handled(WithErrs(Respond("delete_comment", 0, commentId, 400,
                                  "store error", TRUE, <<0, 0>>),
                          Err("edge", TRUE)))
      /\ UNCHANGED <<followVars, postVars, verifVars>>
    ELSE
      /\ comments' = commentDelete(commentId, deleteOk)[1]
      /\ comment_count' = commentDelete(commentId, deleteOk)[2]
      /\ UNCHANGED <<followVars, verifVars, posts, likes, like_count, tagVars>>
      /\ Handled(Respond("delete_comment", 0, commentId, 200,
                         "Comment deleted successfully", FALSE, <<0, 0>>))

\* ------------------------------------------------------------- create post
\* upsert that overwrites the whole row on a conflict
hashtagUpsert_reset(table, cleanTag) ==
  [t \in DOMAIN table \cup {cleanTag} |-> IF t = cleanTag THEN 0 ELSE table[t]]

\* upsert({tag: cleanTag}, {onConflict: 'tag'}): the row of the tag is kept
\* when there is one, and is inserted with post_count 0 otherwise.
hashtagUpsert(table, cleanTag) ==
  [t \in DOMAIN table \cup {cleanTag} |->
     IF t \in DOMAIN table THEN table[t] ELSE 0]

\* insert into post_hashtags: rejected on a store fault or on a pair that
\* is already linked
linkInsertError(links, postId, cleanTag, insertOk) ==
  ~insertOk \/ <<postId, cleanTag>> \in links

\* the outcomes of the three store calls made for one match
TagOutcomes == [upsert : StoreOutcomes, link : StoreOutcomes, rpc : StoreOutcomes]

\* the number of failed calls among the outcomes drawn for the matches
RECURSIVE FaultCount(_, _)
FaultCount(outs, k) ==
  IF k > Len(outs) THEN 0
  ELSE FaultCount(outs, k + 1)
         + (IF outs[k].upsert THEN 0 ELSE 1) + (IF outs[k].link THEN 0 ELSE 1)
         + (IF outs[k].rpc THEN 0 ELSE 1)

\* the body of the loop for the k-th match: upsert, and when the upsert gave
\* a row, link and increment; no result but the upsert's is looked at.
indexTag(postId, tag, k, o, st) ==
  LET cleanTag == toLowerCase(tag) IN
  IF ~o.upsert THEN [st EXCEPT !.errs = @ \cup {<<"upsert", k>>}]
  ELSE
    LET upserted == hashtagUpsert(st.hashtags, cleanTag)
        linkError == linkInsertError(st.links, postId, cleanTag, o.link)
    IN [hashtags |-> IF o.rpc THEN rpc_increment(upserted, cleanTag)
                     ELSE upserted,
        links |-> IF linkError THEN st.links
                  ELSE st.links \cup {<<postId, cleanTag>>},
        errs |-> st.errs \cup ErrAt("link", k, linkError)
                   \cup ErrAt("increment", k, ~o.rpc)]

\* processHashtags leaving the loop at the first match with a failed call
RECURSIVE processHashtags_stopOnError(_, _, _, _, _)
processHashtags_stopOnError(postId, tags, k, outs, st) ==
  IF k > Len(tags) \/ st.errs # {} THEN st
  ELSE processHashtags_stopOnError(postId, tags, k + 1, outs,
                                   indexTag(postId, tags[k], k, outs[k], st))

\* for (const tag of hashtags) { ... } from the k-th match on
RECURSIVE processHashtags(_, _, _, _, _)
processHashtags(postId, tags, k, outs, st) ==
  IF k > Len(tags) THEN st
  ELSE processHashtags(postId, tags, k + 1, outs,
                       indexTag(postId, tags[k], k, outs[k], st))

\* storage.from('media').upload(filePath, ...) of the request's file, when
\* it has one; the file is stored under a key of its own
mediaUpload(hasFile) == IF hasFile THEN media \cup {now + 1} ELSE media

\* the id the store gives the post inserted by the request handled now
NewPostId == NumPosts + now + 1

\* POST / (create post)
CreatePost(me, content, hasFile) ==
  IF content = <<>> /\ ~hasFile THEN
    /\ Handled(Respond("create", me, 0, 400, "Post must have content or media",
                       FALSE, <<0, 0>>))
    /\ UNCHANGED <<followVars, postVars, verifVars>>
  ELSE \E uploadOk \in StoreOutcomes :
    IF hasFile /\ ~uploadOk THEN
      /\ Handled(WithErrs(Respond("create", me, 0, 400, "store error", TRUE,
                                  <<0, 0>>),
                          Err("upload", TRUE)))
      /\ UNCHANGED <<followVars, postVars, verifVars>>
    ELSE \E insertOk \in StoreOutcomes :
      IF ~insertOk THEN
        /\ Handled(WithErrs(Respond("create", me, 0, 400, "store error", TRUE,
                                    <<0, 0>>),
                            Err("post", TRUE)))
        /\ media' = mediaUpload(hasFile)
        /\ UNCHANGED <<followVars, verifVars, posts, likes, like_count,
                       comments, comment_count, post_data, hashtags,
                       post_hashtags>>
      ELSE
        LET tags == matchHashtags(content, 1) IN
        \E outs \in {o \in [DOMAIN tags -> TagOutcomes] :
                       FaultCount(o, 1) <= MaxFaults} :
          LET st == processHashtags(NewPostId, tags, 1, outs,
                                    [hashtags |-> hashtags,
                                     links |-> post_hashtags, errs |-> {}])
          IN
          /\ posts' = posts \cup {NewPostId}
          /\ post_data' =
               [p \in posts \cup {NewPostId} |->
                  IF p = NewPostId
                  THEN [user_id |-> me, content |-> content,
                        created_at |-> now + 1,
                        media_url |-> IF hasFile THEN now + 1 ELSE 0]
                  ELSE post_data[p]]
          /\ media' = mediaUpload(hasFile)
          /\ like_count' =
               [p \in posts \cup {NewPostId} |->
                  IF p = NewPostId THEN 0 ELSE like_count[p]]
          /\ comment_count' =
               [p \in posts \cup {NewPostId} |->
                  IF p = NewPostId THEN 0 ELSE comment_count[p]]
          /\ hashtags' = st.hashtags
          /\ post_hashtags' = st.links
          /\ UNCHANGED <<followVars, verifVars, likes, comments>>
          /\ Handled([WithErrs(Respond("create", me, NewPostId, 201, "",
                                       st.errs # {}, <<0, 0>>),
                               st.errs)
                        EXCEPT !.post = NewPostId])

\* -------------------------------------------------------------- delete post
\* delete from posts where id = postId, with the cascade of the schema:
\* the likes, comments and hashtag links of the post go with its row.
\* Each result is <<posts, likes, like_count, comments, comment_count,
\* post_data, post_hashtags>>.
postDelete(postId, deleteOk) ==
  IF ~deleteOk \/ postId \notin posts
  THEN <<posts, likes, like_count, comments, comment_count, post_data,
         post_hashtags>>
  ELSE LET left == posts \ {postId} IN
       <<left,
         {e \in likes : e[1] # postId},
         [p \in left |-> like_count[p]],
         {c \in comments : c.post_id # postId},
         [p \in left |-> comment_count[p]],
         [p \in left |-> post_data[p]],
         {l \in post_hashtags : l[1] # postId}>>

\* storage.from('media').remove([path]) when the post has a media_url; the
\* result is not checked
mediaRemove(post, removeOk) ==
  IF post.media_url # 0 /\ removeOk THEN media \ {post.media_url} ELSE media

\* postDeleteAdjust with a decrement for every tag the post is linked to
postDeleteAdjust_decrement(postId, deleteOk) ==
  [t \in DOMAIN hashtags |->
     IF deleteOk /\ <<postId, t>> \in post_hashtags THEN hashtags[t] - 1
     ELSE hashtags[t]]

\* the hashtags table after the handler's delete: between the delete and the
\* answer the handler makes no call, so no post_count moves and no row goes
postDeleteAdjust(postId, deleteOk) == hashtags

\* select from posts where id = postId, .single()
postById(postId, readOk) ==
  IF readOk /\ postId \in posts THEN post_data[postId]
  ELSE [user_id |-> 0, content |-> <<>>, created_at |-> 0, media_url |-> 0]

\* the delete-post handlers: the owner's route tests post.user_id, the
\* admin's does not
DeletePostAs(op, me, postId, isAdmin) ==
  \E readOk \in StoreOutcomes :
    LET post == postById(postId, readOk) IN
    IF post.user_id = 0 THEN
      /\ Handled(WithErrs(Respond(op, me, postId, 404, "Post not found",
                                  ~readOk, <<0, 0>>),
                          Err("read", ~readOk)))
      /\ UNCHANGED <<followVars, postVars, verifVars>>
    ELSE IF ~isAdmin /\ post.user_id # me THEN
      /\ Handled(Respond(op, me, postId, 403, "Not authorized", FALSE,
                         <<0, 0>>))
      /\ UNCHANGED <<followVars, postVars, verifVars>>
    ELSE \E removeOk, deleteOk \in StoreOutcomes :
      LET after == postDelete(postId, deleteOk) IN
      /\ media' = mediaRemove(post, removeOk)
      /\ posts' = after[1]
      /\ likes' = after[2]
      /\ like_count' = after[3]
      /\ comments' = after[4]
      /\ comment_count' = after[5]
      /\ post_data' = after[6]
      /\ post_hashtags' = after[7]
      /\ hashtags' = postDeleteAdjust(postId, deleteOk)
      /\ UNCHANGED <<followVars, verifVars>>
      /\ Handled(WithErrs(
           Respond(op, me, postId, IF deleteOk THEN 200 ELSE 400,
                   IF deleteOk THEN "Post deleted successfully"
                   ELSE "store error",
                   ~removeOk \/ ~deleteOk, <<0, 0>>),
           Err("remove", post.media_url # 0 /\ ~removeOk)
             \cup Err("edge", ~deleteOk)))

\* DELETE /:postId (owner)
DeletePost(me, postId) == DeletePostAs("delete", me, postId, FALSE)

\* DELETE /posts/:postId (admin)
AdminDeletePost(postId) == DeletePostAs("admin_delete", 0, postId, TRUE)

\* --------------------------------------------------------------------- feed
\* order('created_at', { ascending: false }) over the posts of S
RECURSIVE NewestFirst(_)
NewestFirst(S) ==
  IF S = {} THEN <<>>
  ELSE LET newest == CHOOSE p \in S :
                       \A q \in S : post_data[q].created_at <= post_data[p].created_at
       IN <<newest>> \o NewestFirst(S \ {newest})

\* range with its upper end left out
range_exclusive(rows, from, to) ==
  SubSeq(rows, from + 1, IF to < Len(rows) THEN to ELSE Len(rows))

\* .range(from, to): the rows at the 0-based positions from..to, both ends
\* included, as far as there are rows
range(rows, from, to) ==
  SubSeq(rows, from + 1, IF to + 1 < Len(rows) THEN to + 1 ELSE Len(rows))

\* the page of the feed query: offset = (page - 1) * limit
feedPage(page, limit) ==
  LET offset == (page - 1) * limit IN
  range(NewestFirst(posts), offset, offset + limit - 1)

\* userLike matching the likes of any viewer
userLike_anyViewer(me, postId, readOk) ==
  readOk /\ \E u \in Users : <<postId, u>> \in likes

\* select from likes where post_id = post.id and user_id = me, .single():
\* the row, or null when there is none or the read fails
userLike(me, postId, readOk) ==
  readOk /\ <<postId, me>> \in likes

\* the items put together in the order the checks completed in
postsWithLikes_completionOrder(items, liked, done) ==
  [k \in DOMAIN done |-> [id |-> items[done[k]], is_liked |-> liked[done[k]]]]

\* Promise.all(posts.map(...)): the result of the i-th check is the i-th
\* item, whatever order the checks completed in
postsWithLikes(items, liked, done) ==
  [i \in DOMAIN items |-> [id |-> items[i], is_liked |-> liked[i]]]

\* GET /feed: the page query
FeedFetch(me, page, limit) ==
  /\ feed.pc = "idle"
  /\ now < MaxTime
  /\ \E fetchOk \in StoreOutcomes :
       IF ~fetchOk THEN
         /\ Answers(WithErrs(Respond("feed", me, 0, 400, "store error",
                                         TRUE, <<0, 0>>),
                                 Err("page", TRUE)))
         /\ UNCHANGED feed
       ELSE
         /\ feed' = [NoFeed EXCEPT !.pc = "checks", !.user = me,
                                   !.page = page, !.limit = limit,
                                   !.items = feedPage(page, limit)]
         /\ UNCHANGED <<now, last, prev>>
  /\ UNCHANGED <<followVars, postVars, verifVars, inflight, unreliable, profile>>

\* GET /feed: the like check of the i-th item completes
FeedCheck(i) ==
  /\ feed.pc = "checks"
  /\ i \in DOMAIN feed.items \ DOMAIN feed.liked
  /\ \E readOk \in StoreOutcomes :
       feed' = [feed EXCEPT
                  !.liked = (i :> userLike(feed.user, feed.items[i], readOk)) @@ @,
                  !.seen = (i :> (<<feed.items[i], feed.user>> \in likes)) @@ @,
                  !.done = Append(@, i)]
  /\ UNCHANGED <<followVars, postVars, verifVars, inflight, unreliable,
                 profile, now, last, prev>>

\* GET /feed: every check has completed, the page is answered
FeedRespond ==
  /\ feed.pc = "checks"
  /\ Len(feed.done) = Len(feed.items)
  /\ Answers([Respond("feed", feed.user, feed.page, 200, "", FALSE,
                          <<feed.limit, 0>>)
                    EXCEPT !.posts = postsWithLikes(feed.items, feed.liked,
                                                    feed.done)])
  /\ feed' = NoFeed
  /\ UNCHANGED <<followVars, postVars, verifVars, inflight, unreliable, profile>>

\* ------------------------------------------------------------------ profile
\* likesData.reduce((sum, post) => sum + (post.like_count || 0), 0) over the
\* posts of S
RECURSIVE SumLikes(_)
SumLikes(S) ==
  IF S = {} THEN 0
  ELSE LET p == CHOOSE q \in S : TRUE IN like_count[p] + SumLikes(S \ {p})

\* totalLikes summing over the posts of every user
totalLikes_allPosts(profileId, readOk) ==
  IF readOk THEN SumLikes(posts) ELSE 0

\* select like_count from posts where user_id = profile.id, summed; 0 when
\* the read gives no data
totalLikes(profileId, readOk) ==
  IF readOk THEN SumLikes({p \in posts : post_data[p].user_id = profileId})
  ELSE 0

\* GET /:username; it writes nothing
GetProfile(me, userId) ==
  /\ \E profileOk, followOk, likesOk \in StoreOutcomes :
       profile' =
         IF ~profileOk \/ userId \notin Users
         THEN [NoProfile EXCEPT !.code = 404, !.user = userId, !.viewer = me,
                                !.at = now]
         ELSE [code |-> 200, user |-> userId, viewer |-> me,
               is_following |-> existingFollow(me, userId, followOk),
               total_likes_received |-> totalLikes(userId, likesOk),
               at |-> now]
  /\ UNCHANGED <<followVars, postVars, verifVars, inflight, unreliable, feed,
                 now, last, prev>>

\* ------------------------------------------------------------ verification
\* activeRequest restricted to pending rows
activeRequest_pendingOnly(me, readOk) ==
  LET rows == {i \in DOMAIN verification_requests :
                 /\ verification_requests[i].user_id = me
                 /\ verification_requests[i].status = "pending"}
  IN IF readOk /\ Cardinality(rows) = 1
     THEN verification_requests[CHOOSE i \in rows : TRUE]
     ELSE NullRow

\* select from verification_requests where user_id = me and status in
\* (pending, approved), .single(): the row when exactly one matches, null
\* when none or several match or the read fails.
activeRequest(me, readOk) ==
  LET rows == {i \in DOMAIN verification_requests :
                 /\ verification_requests[i].user_id = me
                 /\ verification_requests[i].status \in {"pending", "approved"}}
  IN IF readOk /\ Cardinality(rows) = 1
     THEN verification_requests[CHOOSE i \in rows : TRUE]
     ELSE NullRow

\* the conflict message for an existing pending or approved request
submitConflict(existingRequest) ==
  IF existingRequest.status = "approved"
  THEN "Account already verified"
  ELSE "Verification request already pending"

\* insert into verification_requests { user_id, status: 'pending' }
insertRequest(me, at) ==
  Append(verification_requests,
         [user_id |-> me, status |-> "pending", created_at |-> at,
          reviewed_at |-> 0])

\* select from verification_requests where id = requestId, .single()
requestById(requestId, readOk) ==
  IF readOk /\ requestId \in DOMAIN verification_requests
  THEN verification_requests[requestId]
  ELSE NullRow

\* alreadyProcessed that lets a rejected request through
alreadyProcessed_approvedOnly(request) == request.status = "approved"

\* request.status !== 'pending'
alreadyProcessed(request) == request.status # "pending"

\* reviewRequest writing the status alone
reviewRequest_statusOnly(requestId, status, at, updateOk) ==
  IF updateOk /\ requestId \in DOMAIN verification_requests
  THEN [verification_requests EXCEPT ![requestId].status = status]
  ELSE verification_requests

\* update verification_requests set status, reviewed_at where id = requestId;
\* the result is not checked.
reviewRequest(requestId, status, at, updateOk) ==
  IF updateOk /\ requestId \in DOMAIN verification_requests
  THEN [verification_requests EXCEPT ![requestId].status = status,
                                     ![requestId].reviewed_at = at]
  ELSE verification_requests

\* update profiles set is_verified = true where id = user_id; the result is
\* not checked.
verifyProfile(user_id, updateOk) ==
  IF updateOk /\ user_id \in DOMAIN is_verified
  THEN [is_verified EXCEPT ![user_id] = TRUE]
  ELSE is_verified

\* ------------------------------------------------------------------ profiles
\* profileWrite as a write of the whole row, columns not named set to their
\* defaults
profileWrite_wholeRow(userId, updates, updateOk) ==
  IF updateOk /\ userId \in DOMAIN is_verified
  THEN [is_verified EXCEPT ![userId] =
          IF "is_verified" \in DOMAIN updates THEN updates["is_verified"]
          ELSE FALSE]
  ELSE is_verified

\* update profiles set <updates> where id = userId: the column is_verified
\* after it. Only the columns named in updates are written.
profileWrite(userId, updates, updateOk) ==
  IF updateOk /\ userId \in DOMAIN is_verified
       /\ "is_verified" \in DOMAIN updates
  THEN [is_verified EXCEPT ![userId] = updates["is_verified"]]
  ELSE is_verified

\* PUT /profile. updates holds a column for each field the request gives and
\* each file whose upload succeeded; the other profile columns are not part
\* of the state. Files are stored under keys of their own.
UpdateProfile(me, displayName, hasBio, hasAvatar, hasCover) ==
  \E avatarOk, coverOk \in StoreOutcomes :
    LET columns == (IF displayName THEN {"display_name"} ELSE {})
                     \cup (IF hasBio THEN {"bio"} ELSE {})
                     \cup (IF hasAvatar /\ avatarOk THEN {"avatar_url"} ELSE {})
                     \cup (IF hasCover /\ coverOk THEN {"cover_url"} ELSE {})
        updates == [c \in columns |-> TRUE]
        uploaded == (IF hasAvatar /\ avatarOk THEN {MaxTime + now + 1} ELSE {})
                      \cup (IF hasCover /\ coverOk THEN {2 * MaxTime + now + 1}
                            ELSE {})
    IN
    /\ media' = media \cup uploaded
    /\ UNCHANGED <<followVars, verification_requests, posts, likes, like_count,
                   comments, comment_count, post_data, hashtags, post_hashtags>>
    /\ IF columns = {} THEN
         /\ UNCHANGED is_verified
         /\ Handled(Respond("profile_update", me, me, 400,
                            "No updates provided",
                            (hasAvatar /\ ~avatarOk) \/ (hasCover /\ ~coverOk),
                            <<0, 0>>))
       ELSE \E updateOk \in StoreOutcomes :
         /\ is_verified' = profileWrite(me, updates, updateOk)
         /\ Handled(WithErrs(Respond("profile_update", me, me,
                                     IF updateOk THEN 200 ELSE 400,
                                     IF updateOk THEN "" ELSE "store error",
                                     ~updateOk, <<0, 0>>),
                             Err("edge", ~updateOk)))

\* POST /users/:userId/ban (admin); the result of the update is not checked
BanUser(userId) ==
  \E updateOk \in StoreOutcomes :
    /\ is_verified' = profileWrite(userId,
                                   [c \in {"is_banned", "ban_reason"} |-> TRUE],
                                   updateOk)
    /\ UNCHANGED <<followVars, postVars, verification_requests>>
    /\ Handled(WithErrs(Respond("ban", 0, userId, 200,
                                "User banned successfully", ~updateOk,
                                <<0, 0>>),
                        Err("edge", ~updateOk)))

\* POST /request (verification)
SubmitVerificationRequest(me) ==
  \E readOk \in StoreOutcomes :
    LET existingRequest == activeRequest(me, readOk) IN
    IF existingRequest # NullRow THEN
      /\ Handled(Respond("submit", me, 0, 400, submitConflict(existingRequest),
                         FALSE, <<0, 0>>))
      /\ UNCHANGED <<followVars, postVars, verifVars>>
    ELSE \E insertOk \in StoreOutcomes :
      IF ~insertOk THEN
        /\ Handled(Respond("submit", me, 0, 400, "store error", TRUE, <<0, 0>>))
        /\ UNCHANGED <<followVars, postVars, verifVars>>
      ELSE
        /\ verification_requests' = insertRequest(me, now + 1)
        /\ UNCHANGED <<followVars, postVars, is_verified>>
        /\ Handled(Respond("submit", me, Len(verification_requests) + 1, 201,
                           "Verification request submitted successfully",
                           ~readOk, <<0, 0>>))

\* POST /verification-requests/:requestId/approve
ApproveVerificationRequest(requestId) ==
  \E readOk \in StoreOutcomes :
    LET request == requestById(requestId, readOk) IN
    IF request = NullRow THEN
      /\ Handled(Respond("approve", 0, requestId, 404, "Request not found",
                         ~readOk, <<0, 0>>))
      /\ UNCHANGED <<followVars, postVars, verifVars>>
    ELSE IF alreadyProcessed(request) THEN
      /\ Handled(Respond("approve", request.user_id, requestId, 400,
                         "Request already processed", FALSE, <<0, 0>>))
      /\ UNCHANGED <<followVars, postVars, verifVars>>
    ELSE \E update1Ok, update2Ok \in StoreOutcomes :
      /\ verification_requests' =
           reviewRequest(requestId, "approved", now + 1, update1Ok)
      /\ is_verified' = verifyProfile(request.user_id, update2Ok)
      /\ UNCHANGED <<followVars, postVars>>
      /\ Handled(Respond("approve", request.user_id, requestId, 200,
                         "Verification request approved",
                         ~update1Ok \/ ~update2Ok, <<0, 0>>))

\* POST /verification-requests/:requestId/reject
RejectVerificationRequest(requestId) ==
  \E readOk \in StoreOutcomes :
    LET request == requestById(requestId, readOk) IN
    IF request = NullRow THEN
      /\ Handled(Respond("reject", 0, requestId, 404, "Request not found",
                         ~readOk, <<0, 0>>))
      /\ UNCHANGED <<followVars, postVars, verifVars>>
    ELSE IF alreadyProcessed(request) THEN
      /\ Handled(Respond("reject", request.user_id, requestId, 400,
                         "Request already processed", FALSE, <<0, 0>>))
      /\ UNCHANGED <<followVars, postVars, verifVars>>
    ELSE \E updateOk \in StoreOutcomes :
      /\ verification_requests' =
           reviewRequest(requestId, "rejected", now + 1, updateOk)
      /\ UNCHANGED <<followVars, postVars, is_verified>>
      /\ Handled(Respond("reject", request.user_id, requestId, 200,
                         "Verification request rejected", ~updateOk,
                         <<0, 0>>))

\* latestRequest ordered by created_at ascending
latestRequest_oldest(me, readOk) ==
  LET rows == {i \in DOMAIN verification_requests :
                 verification_requests[i].user_id = me}
  IN IF readOk /\ rows # {}
     THEN verification_requests[
            CHOOSE i \in rows :
              \A j \in rows : verification_requests[i].created_at
                                <= verification_requests[j].created_at]
     ELSE NullRow

\* select from verification_requests where user_id = me, order by
\* created_at descending, limit 1, .single(): the newest row of the user,
\* null when there is none or the read fails.
latestRequest(me, readOk) ==
  LET rows == {i \in DOMAIN verification_requests :
                 verification_requests[i].user_id = me}
  IN IF readOk /\ rows # {}
     THEN verification_requests[
            CHOOSE i \in rows :
              \A j \in rows : verification_requests[j].created_at
                                <= verification_requests[i].created_at]
     ELSE NullRow

\* GET /status (verification); it writes nothing
GetVerificationStatus(me) ==
  /\ \E readOk \in StoreOutcomes :
       LET request == latestRequest(me, readOk) IN
       IF request = NullRow
       THEN AnswersQuery([Respond("status", me, 0, 200, "none", ~readOk,
                                  <<0, 0>>)
                            EXCEPT !.errs = Err("read", ~readOk)])
       ELSE AnswersQuery([Respond("status", me, 0, 200, "request", FALSE,
                                  <<0, 0>>)
                            EXCEPT !.request = request])
  /\ UNCHANGED <<followVars, postVars, verifVars>>

\* ------------------------------------- verification, requests interleaved
\* Each request runs in a slot; between two of its store calls any other
\* request may run. A step is one store call with the handler code up to the
\* next one.

\* a request arrives in a free slot
Arrives(p) ==
  /\ inflight[p] = Idle
  /\ now < MaxTime
  /\ now' = now + 1

\* the handler answers and its slot is freed
Answered(p, response) ==
  /\ last' = response
  /\ prev' = last
  /\ inflight' = [inflight EXCEPT ![p] = Idle]

\* the handler goes on to its next store call
Continues(p, op, pc, user, target, snap, faults) ==
  /\ inflight' = [inflight EXCEPT ![p] =
                    [op |-> op, pc |-> pc, user |-> user, target |-> target,
                     snap |-> snap, faults |-> faults, k |-> 0]]
  /\ UNCHANGED <<last, prev>>

\* the handler goes on to a store call of its loop, made for the k-th match
ContinuesAt(p, op, pc, user, target, faults, k) ==
  /\ inflight' = [inflight EXCEPT ![p] =
                    [op |-> op, pc |-> pc, user |-> user, target |-> target,
                     snap |-> NullRow, faults |-> faults, k |-> k]]
  /\ UNCHANGED <<last, prev>>

\* POST /request: the read of the existing request and the guard on it
SubmitRead(p, me) ==
  /\ Arrives(p)
  /\ \E readOk \in StoreOutcomes :
       LET existingRequest == activeRequest(me, readOk) IN
       IF existingRequest # NullRow
       THEN Answered(p, Respond("submit", me, 0, 400,
                                submitConflict(existingRequest), FALSE,
                                <<0, 0>>))
       ELSE Continues(p, "submit", "insert", me, 0, existingRequest, ~readOk)
  /\ UNCHANGED <<followVars, postVars, verifVars, unreliable, feed, profile>>

\* POST /request: the insert and the answer
SubmitInsert(p) ==
  /\ inflight[p].op = "submit" /\ inflight[p].pc = "insert"
  /\ \E insertOk \in StoreOutcomes :
       IF ~insertOk THEN
         /\ Answered(p, Respond("submit", inflight[p].user, 0, 400,
                                "store error", TRUE, <<0, 0>>))
         /\ UNCHANGED verifVars
       ELSE
         /\ verification_requests' = insertRequest(inflight[p].user, now)
         /\ UNCHANGED is_verified
         /\ Answered(p, Respond("submit", inflight[p].user,
                                Len(verification_requests) + 1, 201,
                                "Verification request submitted successfully",
                                inflight[p].faults, <<0, 0>>))
  /\ UNCHANGED <<followVars, postVars, unreliable, feed, profile, now>>

\* approve / reject: the read of the request and the two guards on it
ReviewRead(p, op, requestId) ==
  /\ Arrives(p)
  /\ \E readOk \in StoreOutcomes :
       LET request == requestById(requestId, readOk) IN
       IF request = NullRow
       THEN Answered(p, Respond(op, 0, requestId, 404, "Request not found",
                                ~readOk, <<0, 0>>))
       ELSE IF alreadyProcessed(request)
       THEN Answered(p, Respond(op, request.user_id, requestId, 400,
                                "Request already processed", FALSE, <<0, 0>>))
       ELSE Continues(p, op, "update_request", request.user_id, requestId,
                      request, FALSE)
  /\ UNCHANGED <<followVars, postVars, verifVars, unreliable, feed, profile>>

ApproveRead(p, requestId) == ReviewRead(p, "approve", requestId)

RejectRead(p, requestId) == ReviewRead(p, "reject", requestId)

\* approve: the update of the request row
ApproveUpdateRequest(p) ==
  /\ inflight[p].op = "approve" /\ inflight[p].pc = "update_request"
  /\ \E updateOk \in StoreOutcomes :
       /\ verification_requests' =
            reviewRequest(inflight[p].target, "approved", now, updateOk)
       /\ Continues(p, "approve", "update_profile", inflight[p].user,
                    inflight[p].target, inflight[p].snap,
                    inflight[p].faults \/ ~updateOk)
  /\ UNCHANGED <<followVars, postVars, is_verified, unreliable, feed, profile, now>>

\* approve: the update of the profile and the answer
ApproveUpdateProfile(p) ==
  /\ inflight[p].op = "approve" /\ inflight[p].pc = "update_profile"
  /\ \E updateOk \in StoreOutcomes :
       /\ is_verified' = verifyProfile(inflight[p].snap.user_id, updateOk)
       /\ Answered(p, Respond("approve", inflight[p].user, inflight[p].target,
                              200, "Verification request approved",
                              inflight[p].faults \/ ~updateOk, <<0, 0>>))
  /\ UNCHANGED <<followVars, postVars, verification_requests, unreliable,
                 feed, profile, now>>

\* reject: the update of the request row and the answer
RejectUpdate(p) ==
  /\ inflight[p].op = "reject" /\ inflight[p].pc = "update_request"
  /\ \E updateOk \in StoreOutcomes :
       /\ verification_requests' =
            reviewRequest(inflight[p].target, "rejected", now, updateOk)
       /\ Answered(p, Respond("reject", inflight[p].user, inflight[p].target,
                              200, "Verification request rejected", ~updateOk,
                              <<0, 0>>))
  /\ UNCHANGED <<followVars, postVars, is_verified, unreliable, feed, profile, now>>

\* ---------------------------------------- follow / like, requests interleaved
\* POST /:userId/follow: the self check, the read of the edge and the guard
FollowRead(p, me, userId) ==
  /\ Arrives(p)
  /\ IF selfFollow(me, userId)
     THEN Answered(p, Respond("follow", me, userId, 400,
                              "Cannot follow yourself", FALSE, <<0, 0>>))
     ELSE \E readOk \in StoreOutcomes :
       IF existingFollow(me, userId, readOk)
       THEN Answered(p, Respond("follow", me, userId, 400,
                                "Already following this user", FALSE, <<0, 0>>))
       ELSE Continues(p, "follow", "insert", me, userId, NullRow, ~readOk)
  /\ UNCHANGED <<followVars, postVars, verifVars, unreliable, feed, profile>>

\* follow: the insert of the edge and the guard on its error
FollowInsert(p) ==
  LET me == inflight[p].user
      userId == inflight[p].target IN
  /\ inflight[p].op = "follow" /\ inflight[p].pc = "insert"
  /\ \E insertOk \in StoreOutcomes :
       LET error == followInsertError(me, userId, insertOk) IN
       IF followAborts(error) THEN
         /\ Answered(p, WithErrs(Respond("follow", me, userId, 400,
                                         "store error", inflight[p].faults,
                                         <<0, 0>>),
                                 Err("edge", error)))
         /\ UNCHANGED follows
       ELSE
         /\ follows' = IF error THEN follows ELSE follows \cup {<<me, userId>>}
         /\ Continues(p, "follow", "increment_following", me, userId, NullRow,
                      inflight[p].faults)
  /\ UNCHANGED <<following_count, follower_count, postVars, verifVars,
                 unreliable, feed, profile, now>>

\* follow: rpc increment_following_count
FollowIncrementFollowing(p) ==
  LET me == inflight[p].user
      userId == inflight[p].target IN
  /\ inflight[p].op = "follow" /\ inflight[p].pc = "increment_following"
  /\ \E rpc1Ok \in StoreOutcomes :
       /\ following_count' = followAdjust(me, userId, rpc1Ok, FALSE)[1]
       /\ Continues(p, "follow", "increment_follower", me, userId, NullRow,
                    inflight[p].faults \/ ~rpc1Ok)
  /\ UNCHANGED <<follows, follower_count, postVars, verifVars, unreliable,
                 feed, profile, now>>

\* follow: rpc increment_follower_count and the answer
FollowIncrementFollower(p) ==
  LET me == inflight[p].user
      userId == inflight[p].target IN
  /\ inflight[p].op = "follow" /\ inflight[p].pc = "increment_follower"
  /\ \E rpc2Ok \in StoreOutcomes :
       /\ follower_count' = followAdjust(me, userId, FALSE, rpc2Ok)[2]
       /\ Answered(p, Respond("follow", me, userId, 200,
                              "User followed successfully",
                              inflight[p].faults \/ ~rpc2Ok, <<0, 0>>))
  /\ UNCHANGED <<follows, following_count, postVars, verifVars, unreliable,
                 feed, profile, now>>

\* POST /:postId/like: the read of the like and the branch on it
LikeRead(p, me, postId) ==
  /\ Arrives(p)
  /\ \E readOk \in StoreOutcomes :
       Continues(p, "like",
                 IF existingLike(me, postId, readOk) THEN "delete" ELSE "insert",
                 me, postId, NullRow, ~readOk)
  /\ UNCHANGED <<followVars, postVars, verifVars, unreliable, feed, profile>>

\* like: the delete (unlike branch) or the insert (like branch)
LikeWrite(p) ==
  LET me == inflight[p].user
      postId == inflight[p].target IN
  /\ inflight[p].op = "like" /\ inflight[p].pc \in {"delete", "insert"}
  /\ \E writeOk \in StoreOutcomes :
       /\ likes' = IF inflight[p].pc = "delete"
                   THEN unlikeDelete(me, postId, writeOk)
                   ELSE likeInsert(me, postId, writeOk)
       /\ Continues(p, "like",
                    IF inflight[p].pc = "delete" THEN "decrement"
                                                 ELSE "increment",
                    me, postId, NullRow, inflight[p].faults \/ ~writeOk)
  /\ UNCHANGED <<followVars, verifVars, posts, like_count, comments,
                 comment_count, tagVars, unreliable, feed, profile, now>>

\* like: the rpc on like_count and the answer
LikeAdjust(p) ==
  LET me == inflight[p].user
      postId == inflight[p].target
      liked == inflight[p].pc = "increment" IN
  /\ inflight[p].op = "like" /\ inflight[p].pc \in {"decrement", "increment"}
  /\ \E rpcOk \in StoreOutcomes :
       /\ like_count' = IF liked THEN likeAdjust(postId, rpcOk)
                                 ELSE unlikeAdjust(postId, rpcOk)
       /\ Answered(p, [Respond("like", me, postId, 200,
                               IF liked THEN "Post liked" ELSE "Post unliked",
                               inflight[p].faults \/ ~rpcOk, <<0, 0>>)
                         EXCEPT !.is_liked = liked])
  /\ UNCHANGED <<followVars, verifVars, posts, likes, comments, comment_count,
                 tagVars, unreliable, feed, profile, now>>

\* ------------------------------------------ create post, requests interleaved
\* the loop of the create handler reaches its k-th match: the next upsert,
\* or the 201 answer when the matches are used up
TagLoop(p, me, postId, faults, k) ==
  IF k > Len(matchHashtags(post_data'[postId].content, 1))
  THEN Answered(p, [Respond("create", me, postId, 201, "", faults, <<0, 0>>)
                      EXCEPT !.post = postId])
  ELSE ContinuesAt(p, "create", "upsert", me, postId, faults, k)

\* POST / with no file: the content check, the insert of the post and the
\* guard on its error
CreateInsert(p, me, content) ==
  /\ Arrives(p)
  /\ IF content = <<>> THEN
       /\ Answered(p, Respond("create", me, 0, 400,
                              "Post must have content or media", FALSE,
                              <<0, 0>>))
       /\ UNCHANGED <<posts, like_count, comment_count, post_data>>
     ELSE \E insertOk \in StoreOutcomes :
       IF ~insertOk THEN
         /\ Answered(p, WithErrs(Respond("create", me, 0, 400, "store error",
                                         TRUE, <<0, 0>>),
                                 Err("post", TRUE)))
         /\ UNCHANGED <<posts, like_count, comment_count, post_data>>
       ELSE
         /\ posts' = posts \cup {NewPostId}
         /\ post_data' =
              [q \in posts \cup {NewPostId} |->
                 IF q = NewPostId
                 THEN [user_id |-> me, content |-> content,
                       created_at |-> now + 1, media_url |-> 0]
                 ELSE post_data[q]]
         /\ like_count' =
              [q \in posts \cup {NewPostId} |->
                 IF q = NewPostId THEN 0 ELSE like_count[q]]
         /\ comment_count' =
              [q \in posts \cup {NewPostId} |->
                 IF q = NewPostId THEN 0 ELSE comment_count[q]]
         /\ TagLoop(p, me, NewPostId, FALSE, 1)
  /\ UNCHANGED <<followVars, verifVars, likes, comments, hashtags,
                 post_hashtags, media, unreliable, feed, profile>>

\* create: the upsert of the k-th match's hashtag and the test of its result
TagUpsert(p) ==
  LET me == inflight[p].user
      postId == inflight[p].target
      k == inflight[p].k
      cleanTag == toLowerCase(matchHashtags(post_data[postId].content, 1)[k])
  IN
  /\ inflight[p].op = "create" /\ inflight[p].pc = "upsert"
  /\ UNCHANGED <<followVars, verifVars, posts, likes, like_count, comments,
                 comment_count, post_data, post_hashtags, media, unreliable,
                 feed, profile, now>>
  /\ \E upsertOk \in StoreOutcomes :
       IF ~upsertOk THEN
         /\ UNCHANGED hashtags
         /\ TagLoop(p, me, postId, TRUE, k + 1)
       ELSE
         /\ hashtags' = hashtagUpsert(hashtags, cleanTag)
         /\ ContinuesAt(p, "create", "link", me, postId, inflight[p].faults, k)

\* create: the insert of the link of the k-th match; no result looked at
TagLink(p) ==
  LET me == inflight[p].user
      postId == inflight[p].target
      k == inflight[p].k
      cleanTag == toLowerCase(matchHashtags(post_data[postId].content, 1)[k])
  IN
  /\ inflight[p].op = "create" /\ inflight[p].pc = "link"
  /\ \E insertOk \in StoreOutcomes :
       LET linkError == linkInsertError(post_hashtags, postId, cleanTag,
                                        insertOk) IN
       /\ post_hashtags' = IF linkError THEN post_hashtags
                           ELSE post_hashtags \cup {<<postId, cleanTag>>}
       /\ ContinuesAt(p, "create", "increment", me, postId,
                      inflight[p].faults \/ linkError, k)
  /\ UNCHANGED <<followVars, verifVars, posts, likes, like_count, comments,
                 comment_count, post_data, hashtags, media, unreliable, feed,
                 profile, now>>

\* create: rpc increment_hashtag_count for the k-th match, then the loop
TagIncrement(p) ==
  LET me == inflight[p].user
      postId == inflight[p].target
      k == inflight[p].k
      cleanTag == toLowerCase(matchHashtags(post_data[postId].content, 1)[k])
  IN
  /\ inflight[p].op = "create" /\ inflight[p].pc = "increment"
  /\ UNCHANGED <<followVars, verifVars, posts, likes, like_count, comments,
                 comment_count, post_data, post_hashtags, media, unreliable,
                 feed, profile, now>>
  /\ \E rpcOk \in StoreOutcomes :
       /\ hashtags' = IF rpcOk THEN rpc_increment(hashtags, cleanTag)
                      ELSE hashtags
       /\ TagLoop(p, me, postId, inflight[p].faults \/ ~rpcOk, k + 1)

\* ------------------------------------------------------------ specification
InitStore ==
  /\ follows = {}
  /\ following_count = [u \in Users |-> 0]
  /\ follower_count = [u \in Users |-> 0]
  /\ posts = PostIds
  /\ likes = {}
  /\ like_count = [p \in PostIds |-> 0]
  /\ comments = {}
  /\ comment_count = [p \in PostIds |-> 0]
  /\ post_data = [p \in PostIds |->
                   [user_id |-> 1, content |-> <<>>,
                    created_at |-> p - NumPosts, media_url |-> 0 - p]]
  /\ media = {0 - p : p \in PostIds}
  /\ hashtags = <<>>
  /\ post_hashtags = {}
  /\ verification_requests = <<>>
  /\ is_verified = [u \in Users |-> FALSE]
  /\ inflight = [p \in Procs |-> Idle]
  /\ feed = NoFeed
  /\ profile = NoProfile
  /\ now = 0
  /\ last = NoRequest
  /\ prev = NoRequest

\* a run in which every store call succeeds
Init == InitStore /\ unreliable = FALSE

\* a run in which any store call may return a store error
InitUnreliable == InitStore /\ unreliable = TRUE

\* the store after user 1 has submitted a verification request, in a run in
\* which any store call may return a store error
InitPending ==
  /\ follows = {}
  /\ following_count = [u \in Users |-> 0]
  /\ follower_count = [u \in Users |-> 0]
  /\ posts = PostIds
  /\ likes = {}
  /\ like_count = [p \in PostIds |-> 0]
  /\ comments = {}
  /\ comment_count = [p \in PostIds |-> 0]
  /\ post_data = [p \in PostIds |->
                   [user_id |-> 1, content |-> <<>>,
                    created_at |-> p - NumPosts, media_url |-> 0 - p]]
  /\ media = {0 - p : p \in PostIds}
  /\ hashtags = <<>>
  /\ post_hashtags = {}
  /\ verification_requests =
       <<[user_id |-> 1, status |-> "pending", created_at |-> 0,
          reviewed_at |-> 0]>>
  /\ is_verified = [u \in Users |-> FALSE]
  /\ inflight = [p \in Procs |-> Idle]
  /\ feed = NoFeed
  /\ profile = NoProfile
  /\ now = 0
  /\ last = NoRequest
  /\ prev = NoRequest
  /\ unreliable = TRUE

\* the store before any post is created
InitEmpty ==
  /\ follows = {}
  /\ following_count = [u \in Users |-> 0]
  /\ follower_count = [u \in Users |-> 0]
  /\ posts = {}
  /\ likes = {}
  /\ like_count = <<>>
  /\ comments = {}
  /\ comment_count = <<>>
  /\ post_data = <<>>
  /\ media = {}
  /\ hashtags = <<>>
  /\ post_hashtags = {}
  /\ verification_requests = <<>>
  /\ is_verified = [u \in Users |-> FALSE]
  /\ inflight = [p \in Procs |-> Idle]
  /\ feed = NoFeed
  /\ profile = NoProfile
  /\ now = 0
  /\ last = NoRequest
  /\ prev = NoRequest
  /\ unreliable = FALSE

\* the store above after user 1 has liked post 1
InitLiked ==
  /\ follows = {}
  /\ following_count = [u \in Users |-> 0]
  /\ follower_count = [u \in Users |-> 0]
  /\ posts = PostIds
  /\ likes = {<<1, 1>>}
  /\ like_count = [p \in PostIds |-> IF p = 1 THEN 1 ELSE 0]
  /\ comments = {}
  /\ comment_count = [p \in PostIds |-> 0]
  /\ post_data = [p \in PostIds |->
                   [user_id |-> 1, content |-> <<>>,
                    created_at |-> p - NumPosts, media_url |-> 0 - p]]
  /\ media = {0 - p : p \in PostIds}
  /\ hashtags = <<>>
  /\ post_hashtags = {}
  /\ verification_requests = <<>>
  /\ is_verified = [u \in Users |-> FALSE]
  /\ inflight = [p \in Procs |-> Idle]
  /\ feed = NoFeed
  /\ profile = NoProfile
  /\ now = 0
  /\ last = NoRequest
  /\ prev = NoRequest
  /\ unreliable = FALSE

Follow == \E me \in Users, userId \in Users : FollowUser(me, userId)

Unfollow == \E me \in Users, userId \in Users : UnfollowUser(me, userId)

NextFollow == Follow \/ Unfollow

Like == \E me \in Users, postId \in posts \cup {MissingPost} : LikePost(me, postId)

Comment ==
  \E me \in Users, postId \in posts \cup {MissingPost}, hasContent \in BOOLEAN :
    AddComment(me, postId, hasContent)

NextPost == Like \/ Comment

NextSocial == Follow \/ Unfollow \/ Like \/ Comment

\* the request ids a client may name: every row and one id with no row
RequestIds == 1..(Len(verification_requests) + 1)

Create ==
  /\ now < MaxTime
  /\ \E me \in Users, content \in Contents, hasFile \in BOOLEAN :
       CreatePost(me, content, hasFile)

\* a post with media and no text
CreateMedia ==
  /\ now < MaxTime
  /\ \E me \in Users : CreatePost(me, <<>>, TRUE)

FeedFetches ==
  \E me \in Users, page \in 1..MaxPage, limit \in 1..MaxLimit :
    FeedFetch(me, page, limit)

FeedChecks == \E i \in 1..MaxLimit : FeedCheck(i)

\* a post with text and no media
CreateText ==
  /\ now < MaxTime
  /\ \E me \in Users, content \in Contents : CreatePost(me, content, FALSE)

Profile == \E me \in Users, userId \in Users \cup {0} : GetProfile(me, userId)

Submit == \E me \in Users : SubmitVerificationRequest(me)

Approve == \E requestId \in RequestIds : ApproveVerificationRequest(requestId)

Reject == \E requestId \in RequestIds : RejectVerificationRequest(requestId)

NextVerify == Submit \/ Approve \/ Reject

Status == \E me \in Users : GetVerificationStatus(me)

NextVerifyStatus == NextVerify \/ Status

SubmitReads == \E p \in Procs, me \in Users : SubmitRead(p, me)

SubmitInserts == \E p \in Procs : SubmitInsert(p)

ApproveReads == \E p \in Procs, requestId \in RequestIds : ApproveRead(p, requestId)

ApproveUpdatesRequest == \E p \in Procs : ApproveUpdateRequest(p)

ApproveUpdatesProfile == \E p \in Procs : ApproveUpdateProfile(p)

RejectReads == \E p \in Procs, requestId \in RequestIds : RejectRead(p, requestId)

RejectUpdates == \E p \in Procs : RejectUpdate(p)

NextVerifyConcurrent ==
  \/ SubmitReads \/ SubmitInserts
  \/ ApproveReads \/ ApproveUpdatesRequest \/ ApproveUpdatesProfile
  \/ RejectReads \/ RejectUpdates

\* follow and unfollow requests, handled one at a time
SpecFollow == Init /\ [][NextFollow]_vars

\* like and comment requests, handled one at a time
SpecPost == Init /\ [][NextPost]_vars

Next == NextSocial \/ NextVerify

\* every request kind, handled one at a time
Spec == Init /\ [][Next]_vars

\* follow, unfollow, like and comment requests, handled one at a time
SpecSocial == Init /\ [][NextSocial]_vars

\* verification submit, approve and reject requests, handled one at a time
SpecVerify == Init /\ [][NextVerify]_vars

\* the same, over a store whose calls may fail
SpecVerifyUnreliable == InitUnreliable /\ [][NextVerify]_vars

\* the same, from the store in which user 1 has a pending request
SpecVerifyPending == InitPending /\ [][NextVerify]_vars

\* verification requests handled concurrently, store call by store call
SpecVerifyConcurrent == Init /\ [][NextVerifyConcurrent]_vars

\* verification requests and status queries handled one at a time
SpecVerifyStatus == Init /\ [][NextVerifyStatus]_vars

SpecFollowUnreliable == InitUnreliable /\ [][NextFollow]_vars

\* the follow, unfollow, like and comment requests of one user
RequestsOf(me) ==
  \/ \E userId \in Users : FollowUser(me, userId)
  \/ \E userId \in Users : UnfollowUser(me, userId)
  \/ \E postId \in posts \cup {MissingPost} : LikePost(me, postId)
  \/ \E postId \in posts \cup {MissingPost}, hasContent \in BOOLEAN :
       AddComment(me, postId, hasContent)

NextSocialOne == RequestsOf(1)

\* follow, unfollow, like and comment requests of one user, any store call
\* may fail
SpecSocialUnreliable == InitUnreliable /\ [][NextSocialOne]_vars

NextCreate == Create

NextContent == CreateText \/ Like \/ Comment \/ Profile

\* posts created, liked and commented on and profiles queried, one request
\* at a time, from the empty store
SpecContent == InitEmpty /\ [][NextContent]_vars

NextFeed == CreateMedia \/ Like \/ FeedFetches \/ FeedChecks \/ FeedRespond

\* feed requests handled one store read at a time, posts created and liked
\* between the reads
SpecFeed == InitLiked /\ [][NextFeed]_vars

\* posts created one after the other, the store answering every call
SpecCreate == Init /\ [][NextCreate]_vars

\* the create-post requests of one user
CreateBy(me) ==
  /\ now < MaxTime
  /\ \E content \in Contents, hasFile \in BOOLEAN :
       CreatePost(me, content, hasFile)

NextCreateOne == CreateBy(1)

\* the delete-post requests of one user and of the admin
DeleteBy(me) ==
  \/ \E postId \in posts \cup {MissingPost} : DeletePost(me, postId)
  \/ \E postId \in posts \cup {MissingPost} : AdminDeletePost(postId)

NextPosts == CreateBy(1) \/ DeleteBy(1)

\* posts created and deleted one at a time
SpecPosts == Init /\ [][NextPosts]_vars

\* the same, any store call may fail
SpecPostsUnreliable == InitUnreliable /\ [][NextPosts]_vars

\* the posts of one user created one after the other, any store call may
\* fail
SpecCreateUnreliable == InitUnreliable /\ [][NextCreateOne]_vars

\* ------------------------------------------------------------------ claims
EdgesInto(u) == {e \in follows : e[2] = u}
EdgesFrom(u) == {e \in follows : e[1] = u}

\* the last two requests were a successful follow(A,B) and then a
\* successful unfollow(A,B)
FollowThenUnfollow ==
  /\ prev.op = "follow" /\ prev.code = 200
  /\ last.op = "unfollow" /\ last.code = 200
  /\ last.user = prev.user /\ last.target = prev.target

\* C1: after A follows B and then A unfollows B, with nothing in between,
\* A.following_count and B.follower_count have the values they had before
\* the follow, and the edge (A,B) is absent.
C1_FollowUnfollowRestores ==
  FollowThenUnfollow =>
    /\ following_count[last.user] = prev.before[1]
    /\ follower_count[last.target] = prev.before[2]
    /\ <<last.user, last.target>> \notin follows

\* the pair was followed and unfollowed while A already followed someone
C1_Witness ==
  /\ FollowThenUnfollow
  /\ prev.before[1] = 1
  /\ following_count[last.user] = 1

\* the last two requests were a successful follow(A,B) and follow(A,B) again
FollowTwice ==
  /\ prev.op = "follow" /\ prev.code = 200
  /\ last.op = "follow"
  /\ last.user = prev.user /\ last.target = prev.target

\* C2: follow(A,B) twice in sequence: the second call answers 400 'Already
\* following this user'; there is one edge (A,B) and both counters are one
\* above their values before the first call; the second call changes no
\* edge and no counter.
C2_FollowTwice ==
  /\ [](FollowTwice =>
          /\ last.code = 400
          /\ last.msg = "Already following this user"
          /\ <<last.user, last.target>> \in follows
          /\ following_count[last.user] = prev.before[1] + 1
          /\ follower_count[last.target] = prev.before[2] + 1)
  /\ [][(now' = now + 1 /\ last'.msg = "Already following this user")
          => UNCHANGED <<followVars, postVars, verifVars>>]_vars

C2_Witness ==
  /\ FollowTwice
  /\ last.msg = "Already following this user"
  /\ Cardinality(follows) = 2

\* C3: an unfollow(A,B) handled while no edge (A,B) exists changes neither
\* following_count nor follower_count.
C3_UnfollowWithoutEdgeIsNoop ==
  [][(now' = now + 1 /\ last'.op = "unfollow"
        /\ <<last'.user, last'.target>> \notin follows)
       => UNCHANGED <<following_count, follower_count>>]_vars

\* a like request of a run of n consecutive like(U,P) requests that started
\* without the edge
InLikeRun(n) == last.op = "like" /\ last.run = n

\* C4: toggle law. After n consecutive like(U,P) calls from a state without
\* the edge: n odd, the edge is present, like_count is one above its initial
\* value and the call answered is_liked = true; n even, the edge is absent,
\* like_count has its initial value and the call answered is_liked = false.
\* Every like call on an existing post flips the edge.
C4_ToggleLaw ==
  /\ [](\A n \in 1..MaxTime :
          InLikeRun(n) =>
            IF n % 2 = 1
            THEN /\ <<last.target, last.user>> \in likes
                 /\ like_count[last.target] = last.base + 1
                 /\ last.is_liked
            ELSE /\ <<last.target, last.user>> \notin likes
                 /\ like_count[last.target] = last.base
                 /\ ~last.is_liked)
  /\ [][(now' = now + 1 /\ last'.op = "like" /\ last'.target \in posts)
          => (<<last'.target, last'.user>> \in likes')
               # (<<last'.target, last'.user>> \in likes)]_vars

C4_Witness ==
  /\ InLikeRun(3)
  /\ <<last.target, last.user>> \in likes
  /\ like_count[last.target] = 1

\* C5: each profile's follower_count is the number of follow edges pointing
\* at it and its following_count the number of follow edges leaving it.
C5_CountsMatchEdges ==
  \A u \in Users :
    /\ follower_count[u] = Cardinality(EdgesInto(u))
    /\ following_count[u] = Cardinality(EdgesFrom(u))

\* C6: the four counter families are never negative.
C6_CountersNonNegative ==
  /\ \A u \in Users : follower_count[u] >= 0 /\ following_count[u] >= 0
  /\ \A p \in posts : like_count[p] >= 0 /\ comment_count[p] >= 0

\* the rows of subject u whose status is pending or approved
ActiveRequests(u) ==
  {i \in DOMAIN verification_requests :
     /\ verification_requests[i].user_id = u
     /\ verification_requests[i].status \in {"pending", "approved"}}

\* C7: each subject has at most one verification request whose status is
\* pending or approved, also when requests interleave.
C7_OneActiveRequest ==
  \A u \in Users : Cardinality(ActiveRequests(u)) <= 1

\* this step handles a whole request of kind op
Handles(op) == now' = now + 1 /\ last'.op = op

\* C8: a submit succeeds, appending one pending request of the subject,
\* exactly when the subject has no pending or approved request; otherwise it
\* answers 400 and creates nothing, with 'Account already verified' for an
\* approved request and 'Verification request already pending' for a
\* pending one. A submit right after a successful submit of the same
\* subject answers 'already pending'.
C8_SubmitGuard ==
  /\ [][Handles("submit") =>
          LET me == last'.user
              active == ActiveRequests(me)
          IN IF active = {}
             THEN /\ last'.code = 201
                  /\ Len(verification_requests') = Len(verification_requests) + 1
                  /\ SubSeq(verification_requests', 1, Len(verification_requests))
                       = verification_requests
                  /\ verification_requests'[Len(verification_requests')].user_id = me
                  /\ verification_requests'[Len(verification_requests')].status
                       = "pending"
             ELSE /\ last'.code = 400
                  /\ verification_requests' = verification_requests
                  /\ (\E i \in active : verification_requests[i].status = "approved")
                       => last'.msg = "Account already verified"
                  /\ (\E i \in active : verification_requests[i].status = "pending")
                       => last'.msg = "Verification request already pending"]_vars
  /\ []((/\ prev.op = "submit" /\ prev.code = 201
         /\ last.op = "submit" /\ last.user = prev.user)
          => /\ last.code = 400
             /\ last.msg = "Verification request already pending")

\* a submit refused because the subject's request was approved just before
C8_Witness ==
  /\ last.op = "submit" /\ last.msg = "Account already verified"
  /\ prev.op = "approve" /\ prev.code = 200 /\ prev.user = last.user

\* C9: approve and reject change a request only when its status is pending;
\* for a request already approved or rejected they answer 400 'Request
\* already processed' and leave its row and every is_verified unchanged; a
\* row that is approved or rejected never changes again.
C9_DecidedIsTerminal ==
  [][/\ (Handles("approve") \/ Handles("reject")) =>
          LET requestId == last'.target IN
          /\ verification_requests' # verification_requests
               => /\ requestId \in DOMAIN verification_requests
                  /\ verification_requests[requestId].status = "pending"
          /\ (/\ requestId \in DOMAIN verification_requests
              /\ verification_requests[requestId].status # "pending")
               => /\ last'.code = 400
                  /\ last'.msg = "Request already processed"
                  /\ UNCHANGED <<verification_requests, is_verified>>
     /\ \A i \in DOMAIN verification_requests :
          verification_requests[i].status \in {"approved", "rejected"}
            => /\ i \in DOMAIN verification_requests'
               /\ verification_requests'[i] = verification_requests[i]]_vars

\* a reject refused right after the request was approved
C9_Witness ==
  /\ prev.op = "approve" /\ prev.code = 200
  /\ last.op = "reject" /\ last.target = prev.target
  /\ last.msg = "Request already processed"
  /\ verification_requests[last.target].status = "approved"

\* C10: an approve answered with success leaves the request approved with
\* reviewed_at set and the subject's is_verified true; a reject answered
\* with success leaves the request rejected with reviewed_at set and every
\* is_verified unchanged.
C10_ReviewTakesEffect ==
  [][/\ (Handles("approve") /\ last'.code = 200) =>
          /\ verification_requests'[last'.target].status = "approved"
          /\ verification_requests'[last'.target].reviewed_at # 0
          /\ is_verified'[verification_requests[last'.target].user_id]
     /\ (Handles("reject") /\ last'.code = 200) =>
          /\ verification_requests'[last'.target].status = "rejected"
          /\ verification_requests'[last'.target].reviewed_at # 0
          /\ UNCHANGED is_verified]_vars

\* the canonical tag set of a text: its matches, case-folded, each once
CanonicalTags(content) ==
  LET tags == matchHashtags(content, 1) IN
  {toLowerCase(tags[k]) : k \in DOMAIN tags}

\* the post_count of a tag, 0 while the tag has no row
PostCount(table, t) == IF t \in DOMAIN table THEN table[t] ELSE 0

LinksOfTag(t) == {l \in post_hashtags : l[2] = t}

\* C11: creating one post (no store failure) whose text holds a tag several
\* times, or in spellings that differ only in case, leaves one hashtag row
\* for the canonical tag, one link for the (post, tag) pair, and the tag's
\* post_count exactly 1 above its value before the request.
C11_OneTagOnePerPost ==
  [][(Handles("create") /\ last'.code = 201)
       => \A t \in CanonicalTags(post_data'[last'.post].content) :
            /\ t \in DOMAIN hashtags'
            /\ <<last'.post, t>> \in post_hashtags'
            /\ hashtags'[t] = PostCount(hashtags, t) + 1]_vars

\* how many matches of a text fold to the tag t
Occurrences(content, t) ==
  LET tags == matchHashtags(content, 1) IN
  Cardinality({k \in DOMAIN tags : toLowerCase(tags[k]) = t})

PostsWithTag(t) == {p \in posts : Occurrences(post_data[p].content, t) > 0}

\* no post holds the tag t more than once
OncePerPost(t) == \A p \in posts : Occurrences(post_data[p].content, t) <= 1

\* C12: with no store failure, a tag that appears at most once in each post
\* has one row, one link row per post that holds it, and a post_count equal
\* to the number of its link rows; indexed from two posts, post_count = 2
\* and there are two distinct links.
C12_PostCountIsLinkCount ==
  \A t \in DOMAIN hashtags :
    OncePerPost(t) =>
      /\ LinksOfTag(t) = {<<p, t>> : p \in PostsWithTag(t)}
      /\ hashtags[t] = Cardinality(LinksOfTag(t))

\* '#news' was indexed from two posts
C12_Witness ==
  /\ TagNews \in DOMAIN hashtags
  /\ OncePerPost(TagNews)
  /\ hashtags[TagNews] = 2
  /\ Cardinality(LinksOfTag(TagNews)) = 2

\* how many posts are newer than p
NewerThan(p) ==
  Cardinality({q \in posts : post_data[q].created_at > post_data[p].created_at})

\* the posts at the 0-based positions (page-1)*size .. page*size-1 of the
\* newest-first list of all posts
PageOf(page, size) ==
  LET first == (page - 1) * size
      left == Cardinality(posts) - first
      n == IF left <= 0 THEN 0 ELSE IF left < size THEN left ELSE size
  IN [i \in 1..n |-> CHOOSE p \in posts : NewerThan(p) = first + i - 1]

ItemsOf(page, size) ==
  {feedPage(page, size)[i] : i \in DOMAIN feedPage(page, size)}

\* C13: the page query of the feed returns the posts at the positions
\* (p-1)*s .. p*s-1 of the newest-first list; over one state of the store,
\* pages of one size are pairwise disjoint and together hold every post
\* exactly once.
C13_FeedPagination ==
  /\ [][(feed.pc = "idle" /\ feed'.pc = "checks")
          => feed'.items = PageOf(feed'.page, feed'.limit)]_vars
  /\ [](\A s \in 1..MaxLimit :
          /\ \A p, q \in 1..Cardinality(posts) :
               p # q => ItemsOf(p, s) \cap ItemsOf(q, s) = {}
          /\ \A p \in 1..Cardinality(posts) :
               Cardinality(ItemsOf(p, s)) = Len(feedPage(p, s))
          /\ UNION {ItemsOf(p, s) : p \in 1..Cardinality(posts)} = posts)

\* three posts T3 > T2 > T1 and page size 2: page 2 was fetched and is [T1]
C13_Witness ==
  /\ feed.pc = "checks" /\ feed.page = 2 /\ feed.limit = 2
  /\ Cardinality(posts) = 3
  /\ feed.items = <<1>>
  /\ Len(feedPage(1, 2)) = 2
  /\ NewerThan(feedPage(1, 2)[1]) = 0 /\ NewerThan(feedPage(1, 2)[2]) = 1

\* C14: every item the feed returns to viewer V carries is_liked = true
\* exactly when the like edge (post, V) existed when that post was checked,
\* whatever other viewers like; the items are returned in the order of the
\* page, whatever order the checks completed in.
C14_IsLikedIsOwnEdge ==
  [][(feed.pc = "checks" /\ feed'.pc = "idle")
       => /\ last'.op = "feed" /\ last'.user = feed.user
          /\ Len(last'.posts) = Len(feed.items)
          /\ \A i \in DOMAIN feed.items :
               /\ last'.posts[i].id = feed.items[i]
               /\ last'.posts[i].is_liked = feed.seen[i]]_vars

\* the second item was checked before the first; the viewer likes the first
\* item, and the second is liked by another user only
C14_Witness ==
  /\ feed.pc = "checks"
  /\ feed.done = <<2, 1>>
  /\ feed.liked[1] /\ ~feed.liked[2]
  /\ \E u \in Users \ {feed.user} : <<feed.items[2], u>> \in likes

\* from the empty store: a post "check #news now" was created, then liked
\* once by V, then commented on by V
EndToEnd ==
  /\ now = 3
  /\ prev.op = "like" /\ last.op = "comment" /\ last.code = 201
  /\ prev.user = last.user /\ prev.target = last.target
  /\ last.target \in posts
  /\ post_data[last.target].content = CheckNews
  /\ post_data[last.target].user_id # last.user

\* C15: from the empty store, after U creates the post "check #news now",
\* V likes it once and V comments on it (no store failure), the post has
\* like_count = 1 and comment_count = 1, '#news' has post_count = 1, and a
\* query of U's profile reports total_likes_received = 1.
C15_EndToEnd ==
  EndToEnd =>
    /\ like_count[last.target] = 1
    /\ comment_count[last.target] = 1
    /\ PostCount(hashtags, TagNews) = 1
    /\ (profile.at = now /\ profile.user = post_data[last.target].user_id)
         => profile.code = 200 /\ profile.total_likes_received = 1

\* the three requests were made and U's profile was queried after them
C15_Witness ==
  /\ EndToEnd
  /\ profile.at = now /\ profile.user = post_data[last.target].user_id
  /\ profile.total_likes_received = 1
  /\ like_count[last.target] = 1 /\ comment_count[last.target] = 1

\* the edge mutation of the request answered last returned a store error
EdgeFailed(response) == <<"edge", 0>> \in response.errs

\* C16: a follow, unfollow or comment-add whose edge mutation returns a
\* store error is answered with a failure, and no counter is adjusted:
\* following_count, follower_count and comment_count are unchanged, as are
\* the edges and the comments.
C16_FailedEdgeAborts ==
  [][(now' = now + 1 /\ last'.op \in {"follow", "unfollow", "comment"}
        /\ EdgeFailed(last'))
       => /\ last'.code = 400
          /\ UNCHANGED <<following_count, follower_count, comment_count>>
          /\ UNCHANGED <<follows, comments>>]_vars

\* a follow whose insert failed, by a user who already follows someone
C16_Witness ==
  /\ last.op = "follow" /\ EdgeFailed(last) /\ last.code = 400
  /\ following_count[last.user] = 1
  /\ <<last.user, last.target>> \notin follows

\* C17: a like or unlike whose insert or delete of the like edge returns a
\* store error adjusts no like_count: like_count is unchanged by the
\* request.
C17_FailedLikeEdgeNoAdjust ==
  [][(now' = now + 1 /\ last'.op = "like" /\ EdgeFailed(last'))
       => UNCHANGED like_count]_vars

\* C18: post creation increments a tag's post_count only for a link row it
\* inserted: the rise of every post_count is at most the number of link
\* rows the request added for the tag, so a failed link insert brings no
\* increment.
C18_IncrementOnlyAfterLink ==
  [][Handles("create")
       => \A t \in DOMAIN hashtags' :
            hashtags'[t] - PostCount(hashtags, t)
              <= Cardinality({l \in post_hashtags' \ post_hashtags : l[2] = t})]_vars

\* the adjustment calls of the request answered that returned a store error
AdjustFailed(response, call) == <<call, 0>> \in response.errs

\* C19: when a counter-adjustment call fails after the edge mutation of a
\* follow, unfollow, like, unlike or comment-add succeeded, the request is
\* answered as a success, the edge change stays in the store, and the
\* adjustment is not issued again: the counter of the failed call is
\* unchanged.
C19_FailedAdjustKeepsEdge ==
  [][(now' = now + 1 /\ ~EdgeFailed(last')
        /\ (AdjustFailed(last', "adjust1") \/ AdjustFailed(last', "adjust2")))
       => LET u == last'.user
              t == last'.target
          IN
          /\ last'.op \in {"follow", "unfollow", "like", "comment"}
          /\ last'.code \in {200, 201}
          /\ last'.op = "follow" =>
               /\ <<u, t>> \in follows'
               /\ AdjustFailed(last', "adjust1")
                    => following_count'[u] = following_count[u]
               /\ AdjustFailed(last', "adjust2")
                    => follower_count'[t] = follower_count[t]
          /\ last'.op = "unfollow" =>
               /\ <<u, t>> \notin follows'
               /\ AdjustFailed(last', "adjust1")
                    => following_count'[u] = following_count[u]
               /\ AdjustFailed(last', "adjust2")
                    => follower_count'[t] = follower_count[t]
          /\ last'.op = "like" =>
               /\ last'.is_liked <=> <<t, u>> \in likes'
               /\ like_count' = like_count
          /\ last'.op = "comment" =>
               /\ \E c \in comments' \ comments :
                    c.post_id = t /\ c.user_id = u
               /\ comment_count' = comment_count]_vars

\* a follow whose edge was inserted and whose increment of the followee's
\* follower_count failed
C19_Witness ==
  /\ last.op = "follow" /\ last.code = 200
  /\ ~EdgeFailed(last)
  /\ last.errs = {<<"adjust2", 0>>}
  /\ <<last.user, last.target>> \in follows
  /\ following_count[last.user] = 1 /\ follower_count[last.target] = 0

\* a store call made for the k-th match of the request answered failed
FailedAt(response, k) ==
  \E call \in {"upsert", "link", "increment"} : <<call, k>> \in response.errs

\* C20: once the post is inserted, a failed call while one match is indexed
\* stops neither the request nor the other matches: the post is in the
\* store, the request is answered 201, and every match with no failed call
\* has its row, its link to the post and its increment.
C20_TagFailureIsLocal ==
  [][(Handles("create") /\ last'.post # 0)
       => LET tags == matchHashtags(post_data'[last'.post].content, 1) IN
          /\ last'.code = 201
          /\ last'.post \in posts' \ posts
          /\ \A k \in DOMAIN tags :
               ~FailedAt(last', k) =>
                 LET t == toLowerCase(tags[k]) IN
                 /\ t \in DOMAIN hashtags'
                 /\ <<last'.post, t>> \in post_hashtags'
                 /\ hashtags'[t] >= PostCount(hashtags, t) + 1]_vars

\* "#a then #b" was posted; the upsert of '#a' failed and '#b' was indexed
C20_Witness ==
  /\ last.op = "create" /\ last.code = 201
  /\ post_data[last.post].content = TwoTags
  /\ last.errs = {<<"upsert", 1>>}
  /\ DOMAIN hashtags = {toLowerCase(matchHashtags(TwoTags, 1)[2])}
  /\ \A t \in DOMAIN hashtags :
       hashtags[t] = 1 /\ <<last.post, t>> \in post_hashtags

\* the rows of verification_requests that belong to user u
RequestsOfUser(u) ==
  {i \in DOMAIN verification_requests : verification_requests[i].user_id = u}

\* C21: the status query answers the newest request of the subject (by
\* created_at) whatever its status, answers 'none' exactly when the
\* subject has no request, never answers a request of another subject, and
\* changes nothing in the store.
C21_StatusIsLatestRequest ==
  [][(now' = now /\ last'.op = "status")
       => LET mine == RequestsOfUser(last'.user) IN
          /\ UNCHANGED <<followVars, postVars, verifVars>>
          /\ (last'.msg = "none") <=> (mine = {})
          /\ mine = {} => last'.request = NullRow
          /\ mine # {} =>
               /\ last'.request.user_id = last'.user
               /\ \E i \in mine : verification_requests[i] = last'.request
               /\ \A i \in mine : verification_requests[i].created_at
                                    <= last'.request.created_at]_vars

\* the subject's first request was rejected, a second one is pending, and
\* the query answered the second
C21_Witness ==
  /\ last.op = "status" /\ last.msg = "request"
  /\ Cardinality(RequestsOfUser(last.user)) = 2
  /\ last.request.status = "pending"
  /\ \E i \in RequestsOfUser(last.user) :
       verification_requests[i].status = "rejected"

\* C22: a request answered with a failure has changed nothing in the
\* store (a failed counter adjustment or hashtag step is not answered as a
\* failure).
C22_FailureChangesNothing ==
  [][(now' = now + 1 /\ last'.code >= 400)
       => UNCHANGED <<followVars, postVars, verifVars>>]_vars

\* follow and like requests of any users, interleaved store call by store call
NextSocialConcurrent ==
  \E p \in Procs :
    \/ \E me, userId \in Users : FollowRead(p, me, userId)
    \/ FollowInsert(p)
    \/ FollowIncrementFollowing(p)
    \/ FollowIncrementFollower(p)
    \/ \E me \in Users, postId \in PostIds : LikeRead(p, me, postId)
    \/ LikeWrite(p)
    \/ LikeAdjust(p)

SpecSocialConcurrent == Init /\ [][NextSocialConcurrent]_vars

\* both of the two latest responses answer follow(a, b) requests that passed
\* the "already following" guard, and nothing else has run or is running
BothFollowed(a, b) ==
  /\ a # b /\ now = 2
  /\ \A p \in Procs : inflight[p] = Idle
  /\ \A r \in {last, prev} :
       /\ r.op = "follow" /\ r.user = a /\ r.target = b
       /\ r.msg # "Already following this user"

\* C23: when two follow(A, B) requests run interleaved and both read "not yet
\* following", the store rejecting a second edge for the same pair, then after
\* both have answered the edge (A, B) exists, exactly one of the two reports
\* success, and A.following_count and B.follower_count have each gone up by
\* exactly one.
C23_ConcurrentFollowOnce ==
  \A a, b \in Users :
    BothFollowed(a, b) =>
      /\ <<a, b>> \in follows
      /\ (last.code = 200) # (prev.code = 200)
      /\ following_count[a] = 1
      /\ follower_count[b] = 1

C23_Witness ==
  \E a, b \in Users : BothFollowed(a, b) /\ last.code = 400 /\ prev.code = 200

\* the two latest responses are successes of operation op by two distinct
\* users on the same target, and nothing else has run or is running
BothBy(op) ==
  /\ now = 2
  /\ \A p \in Procs : inflight[p] = Idle
  /\ last.op = op /\ prev.op = op
  /\ last.code = 200 /\ prev.code = 200
  /\ last.user # prev.user /\ last.target = prev.target

NextCreateConcurrent ==
  \E p \in Procs :
    \/ \E content \in Contents : CreateInsert(p, 1, content)
    \/ TagUpsert(p)
    \/ TagLink(p)
    \/ TagIncrement(p)

SpecCreateConcurrent == InitEmpty /\ [][NextCreateConcurrent]_vars

\* the two latest responses are the 201 answers of two create requests whose
\* posts both hold the tag t, and nothing else has run or is running
BothCreated(t) ==
  /\ now = 2
  /\ \A p \in Procs : inflight[p] = Idle
  /\ last.op = "create" /\ prev.op = "create"
  /\ last.code = 201 /\ prev.code = 201
  /\ last.post # prev.post
  /\ t \in CanonicalTags(post_data[last.post].content)
  /\ t \in CanonicalTags(post_data[prev.post].content)

\* the tag has its one row, a link from each of the two posts, post_count 2
IndexedTwice(t) ==
  /\ t \in DOMAIN hashtags
  /\ {<<last.post, t>>, <<prev.post, t>>} \subseteq post_hashtags
  /\ hashtags[t] = 2

\* C25: when two posts holding the same tag, which has no row yet, are
\* created with their store calls interleaved in any order, then afterwards
\* the canonical tag has exactly one hashtag row, both posts are linked to
\* it, and its post_count is 2.
C25_ConcurrentTagOnce ==
  \A t \in UNION {CanonicalTags(c) : c \in Contents} :
    BothCreated(t) => IndexedTwice(t)

\* the same for a tag that each of the two posts holds once
TagRaceHeldOnce ==
  \A t \in UNION {CanonicalTags(c) : c \in Contents} :
    (BothCreated(t) /\ OncePerPost(t)) => IndexedTwice(t)

TagRaceHeldOnce_Witness ==
  \E t \in UNION {CanonicalTags(c) : c \in Contents} :
    BothCreated(t) /\ OncePerPost(t)

\* C26: a follow of oneself is answered 400 'Cannot follow yourself' before
\* any store call (no call can have failed), changes no edge and no counter,
\* and no reachable state holds an edge whose follower is its followee.
C26_NoSelfEdge ==
  /\ [](\A e \in follows : e[1] # e[2])
  /\ [][(now' = now + 1 /\ last'.op = "follow" /\ last'.user = last'.target)
          => /\ last'.code = 400
             /\ last'.msg = "Cannot follow yourself"
             /\ ~last'.faults /\ last'.errs = {}
             /\ UNCHANGED followVars]_vars

C26_Witness ==
  /\ last.op = "follow" /\ last.user = last.target /\ last.code = 400
  /\ follows # {}

\* the moderation route, for every comment and for one id with no row
DeleteComments ==
  \E commentId \in {c.id : c \in comments} \cup {0} : DeleteComment(commentId)

NextComments == Comment \/ DeleteComments

SpecComments == Init /\ [][NextComments]_vars

CommentsOf(rows, postId) == {c \in rows : c.post_id = postId}

\* C27: with no store failure, a request that inserts a comment raises the
\* post's comment_count by exactly 1; the moderation delete of a comment
\* removes its row and leaves every comment_count as it was, so that the
\* post's comment_count then exceeds the number of its comments.
C27_DeleteKeepsCommentCount ==
  [][(now' = now + 1)
       => /\ (last'.op = "comment" /\ comments' # comments)
               => comment_count'[last'.target] = comment_count[last'.target] + 1
          /\ (last'.op = "delete_comment" /\ last'.code = 200)
               => \A c \in comments :
                    c.id = last'.target =>
                      /\ c \notin comments'
                      /\ comment_count' = comment_count
                      /\ comment_count'[c.post_id]
                           > Cardinality(CommentsOf(comments', c.post_id))]_vars

C27_Witness ==
  /\ last.op = "delete_comment" /\ last.code = 200
  /\ prev.op = "comment" /\ prev.code = 201
  /\ \E q \in posts : comment_count[q] = 1 /\ CommentsOf(comments, q) = {}

\* C28: a delete-post request, the owner's or the admin's, leaves the
\* hashtags table as it was: no post_count is decremented and no hashtag row
\* is removed, while the links of the deleted post are gone.
C28_DeleteKeepsPostCount ==
  [][(now' = now + 1 /\ last'.op \in {"delete", "admin_delete"})
       => UNCHANGED hashtags]_vars

C28_Witness ==
  /\ last.op \in {"delete", "admin_delete"} /\ last.code = 200
  /\ prev.op = "create"
  /\ \E t \in DOMAIN hashtags : hashtags[t] >= 1 /\ LinksOfTag(t) = {}

\* every route that writes: the social, post and profile requests of user 1,
\* the verification workflow of every user, and the moderation routes
NextRoutes ==
  \/ RequestsOf(1)
  \/ CreateBy(1)
  \/ DeleteBy(1)
  \/ DeleteComments
  \/ NextVerify
  \/ \E displayName, hasBio, hasAvatar, hasCover \in BOOLEAN :
       UpdateProfile(1, displayName, hasBio, hasAvatar, hasCover)
  \/ \E userId \in Users : BanUser(userId)

SpecRoutes == Init /\ [][NextRoutes]_vars

\* C29: every profile starts unverified (the signup insert writes
\* is_verified false); is_verified changes only in an approve request, and
\* then only from false to true: profile update, ban, follow, unfollow, like,
\* comment, post create and delete, comment delete, verification submit and
\* reject leave it as it was for every profile.
C29_VerifiedOnlyByApprove ==
  /\ [](now = 0 => \A u \in Users : ~is_verified[u])
  /\ [][/\ is_verified' # is_verified => (now' = now + 1 /\ last'.op = "approve")
        /\ \A u \in Users : is_verified[u] => is_verified'[u]]_vars

C29_Witness ==
  /\ last.op = "profile_update" /\ last.code = 200
  /\ prev.op = "approve" /\ is_verified[last.user]

\* C30: in every reachable state a verification request has reviewed_at set
\* (non-zero) exactly when its status is approved or rejected; it is unset
\* while the request is pending, and the store update that moves a request
\* out of pending is the one that sets it.
C30_ReviewedAtIffReviewed ==
  /\ [](\A i \in DOMAIN verification_requests :
          (verification_requests[i].reviewed_at # 0)
            <=> (verification_requests[i].status \in {"approved", "rejected"}))
  /\ [][\A i \in DOMAIN verification_requests :
          (/\ verification_requests[i].status = "pending"
           /\ verification_requests'[i].status # "pending")
            => /\ verification_requests[i].reviewed_at = 0
               /\ verification_requests'[i].reviewed_at # 0]_vars

C30_Witness ==
  \E i, j \in DOMAIN verification_requests :
    /\ verification_requests[i].status = "rejected"
    /\ verification_requests[i].reviewed_at # 0
    /\ verification_requests[j].status = "pending"
    /\ verification_requests[j].reviewed_at = 0

\* the subject u has an approved request and an unverified profile
HalfApproved(u) ==
  /\ ~is_verified[u]
  /\ \E i \in DOMAIN verification_requests :
       /\ verification_requests[i].user_id = u
       /\ verification_requests[i].status = "approved"

\* C31: approve writes the request (status approved) and then, in a second
\* store call, the profile (is_verified true); when the second write fails
\* the subject is left with an approved request and an unverified profile,
\* and no later request changes that: a second approve of the request is
\* refused, with 'Request already processed' when its read succeeds.
C31_HalfApprovedStays ==
  [][\A u \in Users :
       HalfApproved(u) =>
         /\ HalfApproved(u)'
         /\ (now' = now + 1 /\ last'.op = "approve"
               /\ last'.target \in DOMAIN verification_requests
               /\ verification_requests[last'.target].user_id = u
               /\ verification_requests[last'.target].status = "approved")
              => /\ last'.code >= 400
                 /\ ~last'.faults => last'.msg = "Request already processed"]_vars

\* C32: in every reachable state, those reached by interleaved approve and
\* reject requests on one request and by failed store updates inside approve
\* included, a profile is verified only if its subject has a verification
\* request with status approved.
C32_VerifiedHasApproved ==
  \A u \in Users :
    is_verified[u] =>
      \E i \in DOMAIN verification_requests :
        /\ verification_requests[i].user_id = u
        /\ verification_requests[i].status = "approved"

\* the two latest responses answer approve or reject requests on one request
BothReviewed ==
  /\ last.op \in {"approve", "reject"} /\ prev.op \in {"approve", "reject"}
  /\ last.target = prev.target
  /\ last.target \in DOMAIN verification_requests

\* C33: when an approve and a reject of one pending request, or two
\* approves, run interleaved, exactly one of them reports success and the
\* other is answered 400 'Request already processed'; the status written by
\* the successful one is never overwritten once the request has left
\* pending.
C33_OneReviewWins ==
  /\ [](BothReviewed =>
          \E won, lost \in {last, prev} :
            /\ won.code = 200
            /\ lost.code = 400 /\ lost.msg = "Request already processed")
  /\ [][\A i \in DOMAIN verification_requests :
          verification_requests[i].status # "pending"
            => verification_requests'[i].status
                 = verification_requests[i].status]_vars

\* the like edges on a post
LikesOn(postId) == {e \in likes : e[1] = postId}

\* C34: when two like requests of one user on one post run interleaved, the
\* store keeping one edge per (post, user), then after both have answered at
\* most one like edge of that user exists on the post and the post's
\* like_count is the number of like edges on it.
C34_SameUserLikeRace ==
  (/\ now = 2
   /\ \A p \in Procs : inflight[p] = Idle
   /\ last.op = "like" /\ prev.op = "like"
   /\ last.user = prev.user /\ last.target = prev.target)
    => /\ Cardinality({e \in LikesOn(last.target) : e[2] = last.user}) <= 1
       /\ like_count[last.target] = Cardinality(LikesOn(last.target))

\* C35: the answer of the like route agrees with the store: when it answers
\* is_liked true the like edge (post, user) exists right after the request,
\* and when it answers is_liked false the edge does not, also when the post
\* has no row or the store rejects the edge write.
C35_IsLikedMatchesEdge ==
  [][(now' = now + 1 /\ last'.op = "like")
       => (last'.is_liked <=> <<last'.target, last'.user>> \in likes')]_vars

====
